---- MODULE Spec2Model ----
(***************************************************************************)
(* Recruitment chatbot: the conversation engine of gemini-chatbot.js, the  *)
(* conversation store of conversation-manager.js and the chat endpoint of  *)
(* server.js.                                                              *)
(*                                                                         *)
(* A text is a sequence of one-character strings, so that the keyword and  *)
(* pattern matching of the extractor is computed character by character.   *)
(* The accented letter i-acute is written "i'" and its capital "I'".       *)
(* An optional value (a JavaScript field that may be undefined) is a set   *)
(* with at most one element: {} is undefined, {v} holds the value v.       *)
(***************************************************************************)
EXTENDS Integers, Sequences, FiniteSets, TLC

\* ------------------------------------------------------------------------
\* Optional values
\* ------------------------------------------------------------------------
None == {}

Some(v) == {v}

Present(x) == x # {}

Val(x) == CHOOSE v \in x : TRUE

\* ------------------------------------------------------------------------
\* Characters and the string primitives the extractor uses
\* ------------------------------------------------------------------------
UpperChars == <<"A", "B", "C", "D", "E", "F", "G", "H", "I", "J", "K", "L", "M", "N", "O", "P", "Q", "R", "S", "T", "U", "V", "W", "X", "Y", "Z", "I'">>

LowerChars == <<"a", "b", "c", "d", "e", "f", "g", "h", "i", "j", "k", "l", "m", "n", "o", "p", "q", "r", "s", "t", "u", "v", "w", "x", "y", "z", "i'">>

DigitChars == <<"0", "1", "2", "3", "4", "5", "6", "7", "8", "9">>

Range(s) == {s[i] : i \in DOMAIN s}

\* the class \d
IsDigit(c) == c \in Range(DigitChars)

\* the class [a-zA-Z] (ASCII letters only: the accented letters are outside it)
IsAsciiLetter(c) == \E i \in 1..26 : c = UpperChars[i] \/ c = LowerChars[i]

\* the class \w
IsWordChar(c) == IsAsciiLetter(c) \/ IsDigit(c) \/ c = "_"

\* the class \s
IsSpace(c) == c = " "

DigitVal(c) == (CHOOSE i \in DOMAIN DigitChars : DigitChars[i] = c) - 1

LowerChar(c) ==
    IF \E i \in DOMAIN UpperChars : UpperChars[i] = c
    THEN LowerChars[CHOOSE i \in DOMAIN UpperChars : UpperChars[i] = c]
    ELSE c

\* String.prototype.toLowerCase
ToLowerCase(s) == [i \in DOMAIN s |-> LowerChar(s[i])]

\* String.prototype.trim
Trim(s) ==
    LET idx == {i \in DOMAIN s : ~IsSpace(s[i])}
    IN  IF idx = {} THEN <<>>
        ELSE LET lo == CHOOSE i \in idx : \A j \in idx : i <= j
                 hi == CHOOSE i \in idx : \A j \in idx : i >= j
             IN  SubSeq(s, lo, hi)

\* String.prototype.includes
Includes(s, w) == \E i \in 1..(Len(s) - Len(w) + 1) : SubSeq(s, i, i + Len(w) - 1) = w

\* String.prototype.startsWith
StartsWith(s, w) == Len(s) >= Len(w) /\ SubSeq(s, 1, Len(w)) = w

\* parseInt of a run of decimal digits
RECURSIVE ParseInt(_)
ParseInt(s) ==
    IF s = <<>> THEN 0
    ELSE 10 * ParseInt(SubSeq(s, 1, Len(s) - 1)) + DigitVal(s[Len(s)])

\* String(n) for a natural number
RECURSIVE NatToStr(_)
NatToStr(n) ==
    IF n < 10 THEN <<DigitChars[n + 1]>>
    ELSE NatToStr(n \div 10) \o <<DigitChars[(n % 10) + 1]>>

\* String(n).padStart(2, '0')
PadStart2(n) == IF n < 10 THEN <<"0">> \o NatToStr(n) ELSE NatToStr(n)

\* the assertion \b between positions i-1 and i of s
WordBoundary(s, i) ==
    LET before == i > 1 /\ i - 1 <= Len(s) /\ IsWordChar(s[i - 1])
        after  == i >= 1 /\ i <= Len(s) /\ IsWordChar(s[i])
    IN  before # after

AllDigits(s, i, j) == \A k \in i..j : k \in DOMAIN s /\ IsDigit(s[k])

Min(S) == CHOOSE x \in S : \A y \in S : x <= y

Max(S) == CHOOSE x \in S : \A y \in S : x >= y

\* ------------------------------------------------------------------------
\* The regular expressions of extractDataFromMessage, as leftmost greedy
\* matches over a text
\* ------------------------------------------------------------------------
IsDateSep(c) == c \in {"/", "-", ".", " "}

\* /\b(\d{1,2})[\/\-\.\s](\d{1,2})[\/\-\.\s](\d{4})\b/ : the three groups of
\* the leftmost match (two-digit groups preferred), or None
DateMatch(s) ==
    LET Fits(i, a, b) ==
            /\ i + a + b + 5 <= Len(s)
            /\ WordBoundary(s, i)
            /\ AllDigits(s, i, i + a - 1)
            /\ IsDateSep(s[i + a])
            /\ AllDigits(s, i + a + 1, i + a + b)
            /\ IsDateSep(s[i + a + b + 1])
            /\ AllDigits(s, i + a + b + 2, i + a + b + 5)
            /\ WordBoundary(s, i + a + b + 6)
        starts == {i \in DOMAIN s : \E a \in 1..2, b \in 1..2 : Fits(i, a, b)}
    IN  IF starts = {} THEN None
        ELSE LET i == Min(starts)
                 a == Max({x \in 1..2 : \E b \in 1..2 : Fits(i, x, b)})
                 b == Max({y \in 1..2 : Fits(i, a, y)})
             IN  Some(<<SubSeq(s, i, i + a - 1),
                        SubSeq(s, i + a + 1, i + a + b),
                        SubSeq(s, i + a + b + 2, i + a + b + 5)>>)

\* /\b\d{8,9}\b/ : the leftmost match (nine digits preferred), or None
DniMatch(s) ==
    LET Fits(i, n) ==
            /\ i + n - 1 <= Len(s)
            /\ WordBoundary(s, i)
            /\ AllDigits(s, i, i + n - 1)
            /\ WordBoundary(s, i + n)
        starts == {i \in DOMAIN s : \E n \in 8..9 : Fits(i, n)}
    IN  IF starts = {} THEN None
        ELSE LET i == Min(starts)
                 n == Max({x \in 8..9 : Fits(i, x)})
             IN  Some(SubSeq(s, i, i + n - 1))

IsEmailLocalChar(c) == IsAsciiLetter(c) \/ IsDigit(c) \/ c \in {".", "_", "%", "+", "-"}

IsEmailDomainChar(c) == IsAsciiLetter(c) \/ IsDigit(c) \/ c \in {".", "-"}

\* /[a-zA-Z0-9._%+-]+@[a-zA-Z0-9.-]+\.[a-zA-Z]{2,}/ : the leftmost match, or None
EmailMatch(s) ==
    LET \* local part i..k-1, "@" at k, domain k+1..d-1, "." at d, letters d+1..e
        Fits(i, k, d, e) ==
            /\ i < k /\ k + 1 < d /\ d + 2 <= e /\ e <= Len(s)
            /\ \A x \in i..(k - 1) : IsEmailLocalChar(s[x])
            /\ s[k] = "@"
            /\ \A x \in (k + 1)..(d - 1) : IsEmailDomainChar(s[x])
            /\ s[d] = "."
            /\ \A x \in (d + 1)..e : IsAsciiLetter(s[x])
        D == DOMAIN s
        starts == {i \in D : \E k \in D, d \in D, e \in D : Fits(i, k, d, e)}
    IN  IF starts = {} THEN None
        ELSE LET i == Min(starts)
                 k == CHOOSE x \in D : \E d \in D, e \in D : Fits(i, x, d, e)
                 d == Max({x \in D : \E e \in D : Fits(i, k, x, e)})
                 e == Max({x \in D : Fits(i, k, d, x)})
             IN  Some(SubSeq(s, i, e))

\* /\b([1-9])\b/ : the digit of the leftmost match, or None
SingleDigitMatch(s) ==
    LET starts == {i \in DOMAIN s :
                      /\ IsDigit(s[i]) /\ s[i] # "0"
                      /\ WordBoundary(s, i)
                      /\ WordBoundary(s, i + 1)}
    IN  IF starts = {} THEN None ELSE Some(<<s[Min(starts)]>>)

\* /(?:s\/?\s*)?(\d{3,5}(?:,\d{3})?)/i : group 1 of the leftmost match, or
\* None.  The optional prefix holds no digit, so the group always starts at
\* the first position that is followed by three digits.
SalaryMatch(s) ==
    LET starts == {i \in DOMAIN s : i + 2 <= Len(s) /\ AllDigits(s, i, i + 2)}
    IN  IF starts = {} THEN None
        ELSE LET p == Min(starts)
                 n == Max({x \in 3..5 : p + x - 1 <= Len(s) /\ AllDigits(s, p, p + x - 1)})
                 q == p + n
                 grouped == /\ q + 3 <= Len(s)
                            /\ s[q] = ","
                            /\ AllDigits(s, q + 1, q + 3)
             IN  Some(IF grouped THEN SubSeq(s, p, q + 3) ELSE SubSeq(s, p, q - 1))

\* String.prototype.replace(/,/g, '')
RemoveCommas(s) == SelectSeq(s, LAMBDA c : c # ",")

\* ------------------------------------------------------------------------
\* Keyword lists
\* ------------------------------------------------------------------------
TermsYesWords ==
    { <<"s", "i'">>, <<"s", "i">>, <<"a", "c", "e", "p", "t", "o">>, <<"o", "k">>,
      <<"d", "a", "l", "e">>, <<"c", "l", "a", "r", "o">>, <<"y", "e", "s">>,
      <<"c", "o", "n", "f", "i", "r", "m", "o">> }

TermsNoWords ==
    { <<"n", "o">>, <<"n", "o", " ", "a", "c", "e", "p", "t", "o">>,
      <<"r", "e", "c", "h", "a", "z", "o">> }

FilterYesWords ==
    { <<"s", "i'">>, <<"s", "i">>, <<"o", "k">>, <<"d", "a", "l", "e">>,
      <<"c", "l", "a", "r", "o">>, <<"y", "e", "s">>, <<"p", "u", "e", "d", "o">>,
      <<"t", "e", "n", "g", "o">> }

FilterNoWords ==
    { <<"n", "o">>, <<"n", "o", " ", "p", "u", "e", "d", "o">>,
      <<"n", "o", " ", "t", "e", "n", "g", "o">> }

ConfirmYesWords ==
    { <<"s", "i'">>, <<"s", "i">>, <<"c", "o", "n", "f", "i", "r", "m", "o">>,
      <<"a", "s", "i", "s", "t", "i", "r", "e'">>, <<"a", "s", "i", "s", "t", "i", "r", "e">> }

ConfirmNoWords ==
    { <<"n", "o">>, <<"c", "a", "n", "c", "e", "l", "a", "r">>,
      <<"r", "e", "p", "r", "o", "g", "r", "a", "m", "a", "r">> }

\* ------------------------------------------------------------------------
\* The message texts of the model
\* ------------------------------------------------------------------------
MsgSi == <<"S", "i">>
MsgNo == <<"n", "o">>
MsgNoAcepto == <<"n", "o", " ", "a", "c", "e", "p", "t", "o">>
MsgNombre == <<"J", "u", "a", "n", " ", "P", "e", "r", "e", "z">>
MsgFechaAdulto == <<"1", "5", "/", "0", "3", "/", "1", "9", "9", "5">>
MsgFechaMenor == <<"1", "5", "/", "0", "3", "/", "2", "0", "1", "0">>
MsgDni == <<"8", "7", "6", "5", "4", "3", "2", "1">>
MsgEmail == <<"j", "1", "@", "T", "e", "s", "t", ".", "c", "o", "m">>
MsgSalario1600 == <<"1", "6", "0", "0">>
MsgSalario1440 == <<"1", "4", "4", "0">>
MsgDistrito == <<"A", "t", "e">>
MsgUno == <<"1">>

\* the message texts a candidate sends
Messages ==
    { MsgSi, MsgNo, MsgNoAcepto, MsgNombre, MsgFechaAdulto, MsgFechaMenor,
      MsgDni, MsgEmail, MsgSalario1600, MsgSalario1440, MsgDistrito, MsgUno }

\* what the extractor and the transition function compute from a text alone
Analyse(s) ==
    LET lowerMessage == Trim(ToLowerCase(s))
    IN  [ length       |-> Len(s),
          lowerMessage |-> lowerMessage,
          trimmed      |-> Trim(s),
          hasDigit     |-> \E i \in DOMAIN s : IsDigit(s[i]),
          termsYes     |-> \E w \in TermsYesWords : Includes(lowerMessage, w),
          termsNo      |-> \E w \in TermsNoWords : Includes(lowerMessage, w),
          filterYes    |-> \E w \in FilterYesWords : Includes(lowerMessage, w),
          filterNo     |-> \E w \in FilterNoWords :
                               lowerMessage = w \/ StartsWith(lowerMessage, w \o <<" ">>),
          confirmYes   |-> \E w \in ConfirmYesWords : Includes(ToLowerCase(s), w),
          confirmNo    |-> \E w \in ConfirmNoWords : Includes(ToLowerCase(s), w),
          dateMatch    |-> DateMatch(s),
          dniMatch     |-> DniMatch(s),
          emailMatch   |-> EmailMatch(s),
          numMatch     |-> SingleDigitMatch(s),
          salaryMatch  |-> SalaryMatch(s) ]

\* the table of Analyse over a set of texts
RECURSIVE AnalyseAll(_)
AnalyseAll(texts) ==
    IF texts = {} THEN <<>>
    ELSE LET m == CHOOSE x \in texts : TRUE
         IN  (m :> Analyse(m)) @@ AnalyseAll(texts \ {m})

\* Analyse, computed once for each message text of the model
AnalysedMessages == AnalyseAll(Messages)

\* the texts that only the scripts testInterview and testScreening send: the
\* greeting, the name, the age and the district, another way of saying yes, another
\* acceptable salary and another choice in a list
MsgHola == <<"H", "o", "l", "a">>
MsgMaria == <<"M", "a", "r", "i", "a", " ", "G", "o", "n", "z", "a", "l", "e", "s">>
MsgClaro == <<"C", "l", "a", "r", "o">>
MsgSalario1200 == <<"S", "/", "1", "2", "0", "0">>
MsgDos == <<"2">>
MsgEdad == <<"2", "5">>
MsgMiraflores == <<"M", "i", "r", "a", "f", "l", "o", "r", "e", "s">>

ScriptMessages == {MsgHola, MsgMaria, MsgClaro, MsgSalario1200, MsgDos, MsgEdad, MsgMiraflores}

AnalysedScript == AnalyseAll(ScriptMessages)

\* other replies of a candidate: the birth date of someone older than 60, a
\* number of 9 digits, ways of saying no to a shift, a district that is not
\* in the table of districts and a choice that no list offers
MsgFechaMayor == <<"1", "5", "/", "0", "3", "/", "1", "9", "5", "5">>
MsgCarnet == <<"1", "2", "3", "4", "5", "6", "7", "8", "9">>
MsgNoPuedo == <<"n", "o", " ", "p", "u", "e", "d", "o">>
MsgNoGracias == <<"n", "o", " ", "g", "r", "a", "c", "i", "a", "s">>
MsgXyz == <<"X", "y", "z">>
MsgNueve == <<"9">>

ReplyMessages == {MsgFechaMayor, MsgCarnet, MsgNoPuedo, MsgNoGracias, MsgXyz, MsgNueve}

AnalysedReplies == AnalyseAll(ReplyMessages)

Text(s) ==
    IF s \in Messages THEN AnalysedMessages[s]
    ELSE IF s \in ScriptMessages THEN AnalysedScript[s]
    ELSE IF s \in ReplyMessages THEN AnalysedReplies[s]
    ELSE Analyse(s)

\* ------------------------------------------------------------------------
\* Conversation states (CONVERSATION_STATES) and candidateData
\* ------------------------------------------------------------------------
INICIO == "inicio"
TERMS == "terms_acceptance"
DATOS_BASICOS == "datos_basicos"
HARD_FILTERS == "hard_filters"
SALARY_EXPECTATION == "salary_expectation"
VALIDACION == "validacion"
LOCATION_INPUT == "location_input"
TIENDAS == "tiendas_sugeridas"
SELECCION_VACANTE == "seleccion_vacante"
SCREENING == "screening"
ENTREVISTA == "programacion_entrevista"
CONFIRMACION_PENDIENTE == "confirmacion_pendiente"
CONFIRMADO == "confirmado"
COMPLETADO == "completado"
RECHAZADO == "rechazado"
ERROR == "error"

CONVERSATION_STATES ==
    { INICIO, TERMS, DATOS_BASICOS, HARD_FILTERS, SALARY_EXPECTATION, VALIDACION,
      LOCATION_INPUT, TIENDAS, SELECCION_VACANTE, SCREENING, ENTREVISTA,
      CONFIRMACION_PENDIENTE, CONFIRMADO, COMPLETADO, RECHAZADO, ERROR }

\* the keys of candidateData that the chatbot reads or writes
CandidateFields ==
    { "termsAccepted", "turnosRotativos", "cierresDisponible", "nombre",
      "fechaNacimiento", "edad", "dni", "email", "distrito", "storeSelection",
      "vacancySelection", "salaryExpectation", "positionMaxSalary" }

\* candidateData: {}
EmptyData == [f \in CandidateFields |-> None]

\* JavaScript truthiness of an optional string / an optional number
TruthyStr(x) == Present(x) /\ Val(x) # <<>>

TruthyNum(x) == Present(x) /\ Val(x) # 0

\* Object.keys(extractedData).length > 0
HasKeys(extracted) == \E f \in CandidateFields : Present(extracted[f])

\* { ...existingData, ...candidateData } and Object.assign(target, source)
Merge(existingData, extracted) ==
    [f \in CandidateFields |->
        IF Present(extracted[f]) THEN extracted[f] ELSE existingData[f]]

\* ------------------------------------------------------------------------
\* Dates: new Date(year, month - 1, day) and the age computed from it
\* ------------------------------------------------------------------------
IsLeapYear(y) == (y % 4 = 0 /\ y % 100 # 0) \/ y % 400 = 0

DaysInMonth(y, m) ==
    IF m = 2 THEN (IF IsLeapYear(y) THEN 29 ELSE 28)
    ELSE IF m \in {4, 6, 9, 11} THEN 30 ELSE 31

\* new Date(year, month - 1, day) for month in 1..12 and day in 1..31: a day
\* past the end of the month rolls over into the next month
NewDate(year, month, day) ==
    IF day <= DaysInMonth(year, month) THEN <<year, month, day>>
    ELSE <<year, month + 1, day - DaysInMonth(year, month)>>

\* the age of someone born on birthDate, on the day now (<<year, month, day>>)
AgeOn(birthDate, now) ==
    LET years == now[1] - birthDate[1]
        monthDiff == now[2] - birthDate[2]
    IN  IF monthDiff < 0 \/ (monthDiff = 0 /\ now[3] < birthDate[3])
        THEN years - 1 ELSE years

\* ------------------------------------------------------------------------
\* extractDataFromMessage
\* ------------------------------------------------------------------------
\* In the operators below text is Text(message), the analysis of the message.
ExtractTerms(text, currentState) ==
    IF currentState \in {INICIO, TERMS}
    THEN IF text.termsYes THEN Some(TRUE)
         ELSE IF text.termsNo THEN Some(FALSE)
         ELSE None
    ELSE None

\* the answer to a hard-filter question: Some(TRUE), Some(FALSE) or None
FilterAnswer(text) ==
    IF text.filterYes THEN Some(TRUE) ELSE IF text.filterNo THEN Some(FALSE) ELSE None

ExtractTurnos(text, existingData, currentState) ==
    IF currentState = HARD_FILTERS /\ ~Present(existingData.turnosRotativos)
    THEN FilterAnswer(text) ELSE None

\* a variant of ExtractCierres that does not wait for the first flag to be set
ExtractCierres_both(text, existingData, currentState) ==
    IF /\ currentState = HARD_FILTERS
       /\ ~Present(existingData.cierresDisponible)
    THEN FilterAnswer(text) ELSE None

ExtractCierres(text, existingData, currentState) ==
    IF /\ currentState = HARD_FILTERS
       /\ Present(existingData.turnosRotativos)
       /\ ~Present(existingData.cierresDisponible)
    THEN FilterAnswer(text) ELSE None

ExtractNombre(text, existingData, currentState) ==
    IF /\ ~TruthyStr(existingData.nombre)
       /\ currentState = DATOS_BASICOS
       /\ ~text.hasDigit
       /\ text.length > 3
       /\ text.length < 60
    THEN Some(text.trimmed) ELSE None

\* the birth date of the message, as [fechaNacimiento, edad], or None
ExtractFecha(text, existingData, currentState, now) ==
    IF ~TruthyStr(existingData.fechaNacimiento) /\ currentState = DATOS_BASICOS
    THEN LET dateMatch == text.dateMatch
         IN  IF ~Present(dateMatch) THEN None
             ELSE LET day   == ParseInt(Val(dateMatch)[1])
                      month == ParseInt(Val(dateMatch)[2])
                      year  == ParseInt(Val(dateMatch)[3])
                  IN  IF /\ day >= 1 /\ day <= 31
                         /\ month >= 1 /\ month <= 12
                         /\ year >= 1950 /\ year <= 2010
                      THEN Some([fechaNacimiento |->
                                    PadStart2(day) \o <<"/">> \o PadStart2(month)
                                        \o <<"/">> \o NatToStr(year),
                                 edad |-> AgeOn(NewDate(year, month, day), now)])
                      ELSE None
    ELSE None

ExtractDni(text, existingData) ==
    IF ~TruthyStr(existingData.dni) THEN text.dniMatch ELSE None

ExtractEmail(text, existingData) ==
    IF ~TruthyStr(existingData.email)
    THEN LET emailMatch == text.emailMatch
         IN  IF Present(emailMatch) THEN Some(ToLowerCase(Val(emailMatch))) ELSE None
    ELSE None

ExtractDistrito(text, existingData, currentState) ==
    IF currentState = LOCATION_INPUT /\ ~TruthyStr(existingData.distrito)
    THEN Some(text.trimmed) ELSE None

\* store selection in TIENDAS, vacancy selection in SELECCION_VACANTE
ExtractSelection(text, currentState, selectionState) ==
    IF currentState = selectionState
    THEN LET numMatch == text.numMatch
         IN  IF Present(numMatch) THEN Some(ParseInt(Val(numMatch))) ELSE None
    ELSE None

ExtractSalary(text, existingData, currentState) ==
    IF currentState = SALARY_EXPECTATION /\ ~TruthyNum(existingData.salaryExpectation)
    THEN LET salaryMatch == text.salaryMatch
         IN  IF ~Present(salaryMatch) THEN None
             ELSE LET salary == ParseInt(RemoveCommas(Val(salaryMatch)))
                  IN  IF salary >= 500 /\ salary <= 10000 THEN Some(salary) ELSE None
    ELSE None

\* the map extracted from an analysed message: a field that is None is a key
\* the map does not have
ExtractedFields(text, existingData, currentState, fecha) ==
    [ termsAccepted     |-> ExtractTerms(text, currentState),
      turnosRotativos   |-> ExtractTurnos(text, existingData, currentState),
      cierresDisponible |-> ExtractCierres(text, existingData, currentState),
      nombre            |-> ExtractNombre(text, existingData, currentState),
      fechaNacimiento   |-> IF Present(fecha) THEN Some(Val(fecha).fechaNacimiento) ELSE None,
      edad              |-> IF Present(fecha) THEN Some(Val(fecha).edad) ELSE None,
      dni               |-> ExtractDni(text, existingData),
      email             |-> ExtractEmail(text, existingData),
      distrito          |-> ExtractDistrito(text, existingData, currentState),
      storeSelection    |-> ExtractSelection(text, currentState, TIENDAS),
      vacancySelection  |-> ExtractSelection(text, currentState, SELECCION_VACANTE),
      salaryExpectation |-> ExtractSalary(text, existingData, currentState),
      positionMaxSalary |-> None ]

\* the same, with the birth date extracted from the message
ExtractedFrom(text, existingData, currentState, now) ==
    ExtractedFields(text, existingData, currentState,
                    ExtractFecha(text, existingData, currentState, now))

\* now is the value of new Date() while the message is processed
extractDataFromMessage(message, existingData, currentState, now) ==
    ExtractedFrom(Text(message), existingData, currentState, now)

\* ------------------------------------------------------------------------
\* determineNextState: the result is [newState, actions]
\* ------------------------------------------------------------------------
DefaultMaxSalary == 1200

\* maxSalary * 1.2.  The model's salaries are multiples of 5, for which the
\* product is a whole number and the floating-point product is exact.
SalaryThreshold(maxSalary) == (maxSalary * 12) \div 10

\* a variant of Stay in which an unanswered turn starts the conversation over
Stay_restart(currentState) == [newState |-> INICIO, actions |-> <<>>]

Stay(currentState) == [newState |-> currentState, actions |-> <<>>]

\* a variant of TermsTransition that rejects without emitting the action
TermsTransition_silent(candidateData) ==
    IF candidateData.termsAccepted = Some(TRUE)
    THEN [newState |-> DATOS_BASICOS, actions |-> <<>>]
    ELSE IF candidateData.termsAccepted = Some(FALSE)
    THEN [newState |-> RECHAZADO, actions |-> <<>>]
    ELSE Stay(TERMS)

TermsTransition(candidateData) ==
    IF candidateData.termsAccepted = Some(TRUE)
    THEN [newState |-> DATOS_BASICOS, actions |-> <<>>]
    ELSE IF candidateData.termsAccepted = Some(FALSE)
    THEN [newState |-> RECHAZADO,
          actions |-> <<[type |-> "rejected", reason |-> "terms_declined"]>>]
    ELSE Stay(TERMS)

\* a variant of BasicDataTransition that does not wait for the email
BasicDataTransition_noEmail(candidateData) ==
    LET hasBasicData == /\ TruthyStr(candidateData.nombre)
                        /\ TruthyNum(candidateData.edad)
                        /\ TruthyStr(candidateData.dni)
    IN  IF TruthyNum(candidateData.edad) /\ Val(candidateData.edad) < 18
        THEN [newState |-> RECHAZADO,
              actions |-> <<[type |-> "rejected", reason |-> "underage"]>>]
        ELSE IF hasBasicData
        THEN [newState |-> HARD_FILTERS, actions |-> <<>>]
        ELSE Stay(DATOS_BASICOS)

BasicDataTransition(candidateData) ==
    LET hasBasicData == /\ TruthyStr(candidateData.nombre)
                        /\ TruthyNum(candidateData.edad)
                        /\ TruthyStr(candidateData.dni)
                        /\ TruthyStr(candidateData.email)
    IN  IF TruthyNum(candidateData.edad) /\ Val(candidateData.edad) < 18
        THEN [newState |-> RECHAZADO,
              actions |-> <<[type |-> "rejected", reason |-> "underage"]>>]
        ELSE IF hasBasicData
        THEN [newState |-> HARD_FILTERS, actions |-> <<>>]
        ELSE Stay(DATOS_BASICOS)

HardFiltersTransition(candidateData) ==
    IF \/ candidateData.turnosRotativos = Some(FALSE)
       \/ candidateData.cierresDisponible = Some(FALSE)
    THEN [newState |-> RECHAZADO,
          actions |-> <<[type |-> "rejected", reason |-> "availability_filter",
                         category |-> "availability"]>>]
    ELSE IF /\ candidateData.turnosRotativos = Some(TRUE)
            /\ candidateData.cierresDisponible = Some(TRUE)
    THEN [newState |-> SALARY_EXPECTATION, actions |-> <<>>]
    ELSE Stay(HARD_FILTERS)

\* a variant of SalaryTransition that rejects an expectation equal to the threshold
SalaryTransition_strict(candidateData) ==
    LET maxSalary == IF TruthyNum(candidateData.positionMaxSalary)
                     THEN Val(candidateData.positionMaxSalary)
                     ELSE DefaultMaxSalary
        salaryThreshold == SalaryThreshold(maxSalary)
    IN  IF TruthyNum(candidateData.salaryExpectation)
        THEN IF Val(candidateData.salaryExpectation) * 10 >= maxSalary * 12
             THEN [newState |-> RECHAZADO,
                   actions |-> <<[type |-> "rejected",
                                  reason |-> "salary_expectation_high",
                                  category |-> "salary",
                                  details |-> [expected |-> Val(candidateData.salaryExpectation),
                                               maxAllowed |-> salaryThreshold]]>>]
             ELSE [newState |-> LOCATION_INPUT, actions |-> <<>>]
        ELSE Stay(SALARY_EXPECTATION)

SalaryTransition(candidateData) ==
    LET maxSalary == IF TruthyNum(candidateData.positionMaxSalary)
                     THEN Val(candidateData.positionMaxSalary)
                     ELSE DefaultMaxSalary
        salaryThreshold == SalaryThreshold(maxSalary)
    IN  IF TruthyNum(candidateData.salaryExpectation)
        THEN IF Val(candidateData.salaryExpectation) * 10 > maxSalary * 12
             THEN [newState |-> RECHAZADO,
                   actions |-> <<[type |-> "rejected",
                                  reason |-> "salary_expectation_high",
                                  category |-> "salary",
                                  details |-> [expected |-> Val(candidateData.salaryExpectation),
                                               maxAllowed |-> salaryThreshold]]>>]
             ELSE [newState |-> LOCATION_INPUT, actions |-> <<>>]
        ELSE Stay(SALARY_EXPECTATION)

\* text is Text(message)
ConfirmationTransition(text) ==
    IF text.confirmYes
    THEN [newState |-> COMPLETADO, actions |-> <<[type |-> "confirm_interview"]>>]
    ELSE IF text.confirmNo
    THEN [newState |-> COMPLETADO, actions |-> <<[type |-> "cancel_interview"]>>]
    ELSE Stay(CONFIRMACION_PENDIENTE)

\* a variant of TerminalTransition in which a finished conversation starts over
TerminalTransition_restart(currentState) == [newState |-> INICIO, actions |-> <<>>]

\* case RECHAZADO / case COMPLETADO
TerminalTransition(currentState) == Stay(currentState)

determineNextState(currentState, candidateData, message) ==
    CASE currentState = INICIO -> [newState |-> TERMS, actions |-> <<>>]
      [] currentState = TERMS -> TermsTransition(candidateData)
      [] currentState = DATOS_BASICOS -> BasicDataTransition(candidateData)
      [] currentState = HARD_FILTERS -> HardFiltersTransition(candidateData)
      [] currentState = SALARY_EXPECTATION -> SalaryTransition(candidateData)
      [] currentState = LOCATION_INPUT ->
            IF TruthyStr(candidateData.distrito)
            THEN [newState |-> TIENDAS,
                  actions |-> <<[type |-> "find_stores", data |-> candidateData]>>]
            ELSE Stay(LOCATION_INPUT)
      [] currentState = TIENDAS ->
            IF TruthyNum(candidateData.storeSelection)
            THEN [newState |-> SELECCION_VACANTE, actions |-> <<>>]
            ELSE Stay(TIENDAS)
      [] currentState = SELECCION_VACANTE -> [newState |-> SCREENING, actions |-> <<>>]
      [] currentState = SCREENING -> [newState |-> ENTREVISTA, actions |-> <<>>]
      [] currentState = ENTREVISTA ->
            [newState |-> CONFIRMADO,
             actions |-> <<[type |-> "schedule_interview", data |-> candidateData]>>]
      [] currentState = CONFIRMACION_PENDIENTE -> ConfirmationTransition(Text(message))
      [] currentState = CONFIRMADO ->
            [newState |-> COMPLETADO, actions |-> <<[type |-> "complete_conversation"]>>]
      [] currentState \in {RECHAZADO, COMPLETADO} -> TerminalTransition(currentState)
      [] OTHER -> Stay(currentState)

\* ------------------------------------------------------------------------
\* Other inputs of the model
\* ------------------------------------------------------------------------
\* the messages of the runs that change tenant or inject a failure
BriefMessages == {MsgSi, MsgNo, MsgNombre, MsgFechaAdulto, MsgDni, MsgEmail}

Phones == {"999995561"}

Tenants == {"ngr", "acme"}

\* origin ids of incoming requests: one of the fallback map, one registered
\* in the tenant registry
Origins == {"ngr-whatsapp", "acme-whatsapp"}

DefaultOrigin == "ngr-whatsapp"

\* an origin id that neither the fallback map nor the tenant registry knows
UnknownOrigin == "sin-tenant"

\* an origin id that names a property every JavaScript object inherits
InheritedKey == "constructor"

\* the value of that property: the function Object
ObjectConstructor == "function Object"

AllOrigins == Origins \cup {UnknownOrigin, InheritedKey}

\* the days on which the run takes place (the value of new Date())
Dates == {<<2026, 11, 3>>}

\* the number of most recent entries of mensajes that the model keeps
MaxHist == 3

\* the number of requests of a run in which a step may throw
MaxFaults == 1

\* ------------------------------------------------------------------------
\* TenantService.getTenantIdFromOrigin
\* ------------------------------------------------------------------------
fallbackMappings == [o \in AllOrigins |-> IF o = "ngr-whatsapp" THEN Some("ngr") ELSE None]

\* the tenants collection: tenant id |-> webhook_origin
TenantRegistry == [t \in Tenants |-> IF t = "acme" THEN "acme-whatsapp" ELSE "ngr-whatsapp"]

\* object[key] of a JavaScript object used as a map, whose own properties
\* are those of own: a key that is no own property is looked up in
\* Object.prototype
PropertyOf(own, key) ==
    IF Present(own[key]) THEN own[key]
    ELSE IF key = InheritedKey THEN Some(ObjectConstructor)
    ELSE None

\* the result is [tenant_id, cache, lookups]: tenant_id = None when the lookup
\* throws, and lookups lists the sources consulted, in order.  No two tenants
\* of the registry have the same webhook_origin, so that the query, limited
\* to one document, finds at most one tenant.
getTenantIdFromOrigin(cache, origin_id) ==
    IF Present(PropertyOf(cache, origin_id))
    THEN [tenant_id |-> PropertyOf(cache, origin_id), cache |-> cache,
          lookups |-> <<"cache">>]
    ELSE IF Present(PropertyOf(fallbackMappings, origin_id))
    THEN [tenant_id |-> PropertyOf(fallbackMappings, origin_id),
          cache |-> [cache EXCEPT ![origin_id] = PropertyOf(fallbackMappings, origin_id)],
          lookups |-> <<"cache", "fallback">>]
    ELSE [tenant_id |-> {t \in Tenants : TenantRegistry[t] = origin_id},
          cache |-> [cache EXCEPT ![origin_id] =
                        {t \in Tenants : TenantRegistry[t] = origin_id}],
          lookups |-> <<"cache", "fallback", "registry">>]

\* TenantService.clearCache
clearCache(cache) == [o \in AllOrigins |-> None]

\* ------------------------------------------------------------------------
\* ConversationManager: operations on one conversation document
\* ------------------------------------------------------------------------
NoConversation ==
    [ exists |-> FALSE, tenant_id |-> None, origin_id |-> None, estado |-> INICIO,
      mensajes |-> <<>>, candidateData |-> EmptyData, activo |-> FALSE ]

\* the last n entries of a list
KeepLast(seq, n) == IF Len(seq) <= n THEN seq ELSE SubSeq(seq, Len(seq) - n + 1, Len(seq))

\* the document written for a new conversation
newConversation(tenant_id, origin_id) ==
    [ exists |-> TRUE, tenant_id |-> Some(tenant_id), origin_id |-> Some(origin_id),
      estado |-> INICIO, mensajes |-> <<>>, candidateData |-> EmptyData, activo |-> TRUE ]

\* a variant of resetConversation whose merge leaves the stored candidateData
resetConversation_keepData(doc, tenant_id, origin_id) ==
    [ doc EXCEPT !.exists = TRUE, !.tenant_id = Some(tenant_id),
                 !.origin_id = Some(origin_id), !.estado = INICIO,
                 !.mensajes = <<>>, !.activo = TRUE ]

\* set(..., { merge: true }): the listed fields are replaced, the empty map
\* candidateData: {} included
resetConversation(doc, tenant_id, origin_id) ==
    [ doc EXCEPT !.exists = TRUE, !.tenant_id = Some(tenant_id),
                 !.origin_id = Some(origin_id), !.estado = INICIO,
                 !.mensajes = <<>>, !.candidateData = EmptyData, !.activo = TRUE ]

\* the document after getOrCreateConversation, which is also what it returns
getOrCreateConversation(doc, tenant_id, origin_id) ==
    IF doc.exists
    THEN IF doc.tenant_id # Some(tenant_id)
         THEN resetConversation(doc, tenant_id, origin_id)
         ELSE doc
    ELSE newConversation(tenant_id, origin_id)

addMessage(doc, role, content) ==
    IF ~doc.exists THEN doc
    ELSE [doc EXCEPT !.mensajes =
              KeepLast(Append(doc.mensajes, [role |-> role, content |-> content]), MaxHist)]

updateState(doc, newState) == [doc EXCEPT !.estado = newState]

\* a variant of updateCandidateData that writes the new data alone
updateCandidateData_replace(doc, candidateData) ==
    [doc EXCEPT !.candidateData = candidateData]

updateCandidateData(doc, candidateData) ==
    [doc EXCEPT !.candidateData = Merge(doc.candidateData, candidateData)]

completeConversation(doc) == [doc EXCEPT !.estado = COMPLETADO, !.activo = FALSE]

\* ------------------------------------------------------------------------
\* GeminiChatbot.processMessage
\* ------------------------------------------------------------------------
\* the text returned by generateResponse, and the reply of the catch block
AiResponse == <<"A", "I">>

ErrorResponse == <<"D", "i", "s", "c", "u", "l", "p", "a">>

\* The awaited step of processMessage that throws, or "none".  A step that a
\* turn does not execute cannot throw in that turn.  The write of a
\* conversation whose tenant_id is a function throws in every turn: Firestore
\* stores no function.
FaultPoints ==
    { "conv_get", "conv_write", "conv_reget", "add_user", "get_history",
      "update_data", "build_context", "generate", "update_state", "add_assistant" }

\* The result is the conversation document as the turn leaves it (doc), what
\* processMessage returns (result), whether the catch block ran (thrown), and
\* the state the turn was processed from (currentState, None if the turn
\* failed before reading it).  The local operators are the successive steps:
\* Turn from the conversation read, Extracted from the data extracted, Decide
\* from the merged candidateData, Finish from the chosen transition.
processMessage(doc, message, origin_id, tenant_id, now, fault) ==
    LET tenantChanged == doc.exists /\ doc.tenant_id # Some(tenant_id)
        writes1 == ~doc.exists \/ tenantChanged
        failed1 == \/ fault = "conv_get"
                   \/ (fault = "conv_write" \/ tenant_id = ObjectConstructor) /\ writes1
        caught(d, currentState) ==
            [ doc |-> d, thrown |-> TRUE, tenantChanged |-> tenantChanged,
              currentState |-> currentState,
              result |-> [response |-> ErrorResponse, newState |-> INICIO, actions |-> <<>>] ]
        Finish(d4, currentState, next) ==
            LET d7 == IF next.newState # currentState
                      THEN updateState(d4, next.newState) ELSE d4
            IN  IF fault = "update_state" /\ next.newState # currentState
                THEN caught(d4, Some(currentState))
                ELSE IF fault = "add_assistant" THEN caught(d7, Some(currentState))
                ELSE [ doc |-> addMessage(d7, "assistant", AiResponse),
                       thrown |-> FALSE, tenantChanged |-> tenantChanged,
                       currentState |-> Some(currentState),
                       result |-> [response |-> AiResponse, newState |-> next.newState,
                                   actions |-> next.actions] ]
        Decide(d4, currentState, candidateData) ==
            IF fault = "build_context" /\ currentState = TIENDAS
                  /\ TruthyStr(candidateData.distrito)
            THEN caught(d4, Some(currentState))
            ELSE IF fault = "generate" THEN caught(d4, Some(currentState))
            ELSE Finish(d4, currentState,
                        determineNextState(currentState, candidateData, message))
        Extracted(d1, d2, extractedData) ==
            IF HasKeys(extractedData)
            THEN IF fault = "update_data" THEN caught(d2, Some(d1.estado))
                 ELSE Decide(updateCandidateData(d2, extractedData), d1.estado,
                             Merge(d1.candidateData, extractedData))
            ELSE Decide(d2, d1.estado, d1.candidateData)
        Turn(d1) ==
            IF fault = "conv_reget" /\ tenantChanged THEN caught(d1, None)
            ELSE IF fault = "add_user" THEN caught(d1, None)
            ELSE IF fault = "get_history" THEN caught(addMessage(d1, "user", message), None)
            ELSE Extracted(d1, addMessage(d1, "user", message),
                           extractDataFromMessage(message, d1.candidateData, d1.estado, now))
    IN  IF failed1 THEN caught(doc, None)
        ELSE Turn(getOrCreateConversation(doc, tenant_id, origin_id))

\* ------------------------------------------------------------------------
\* Candidate records (postulantes) and the Scheduler calls of the chat endpoint
\* ------------------------------------------------------------------------
\* an entrevista map none of whose fields is set
NoEntrevista ==
    [ tiendaId |-> None, vacanteId |-> None, fechaHora |-> None, direccion |-> None,
      calendarEventId |-> None, estado |-> None, confirmada |-> None,
      reprogramada |-> None ]

\* a candidate id without a record
NoCandidate ==
    [ exists |-> FALSE, estado |-> None, storeSelection |-> None, entrevista |-> None,
      applications |-> <<>> ]

\* the record the chat endpoint creates before it retries the scheduling
createdCandidate ==
    [ exists |-> TRUE, estado |-> Some("en_proceso"), storeSelection |-> None,
      entrevista |-> None, applications |-> <<>> ]

\* the interview data the chat endpoint passes: candidateData, which has none
\* of tiendaId, vacanteId, fechaHora, direccion
ChatInterviewData ==
    [tiendaId |-> None, vacanteId |-> None, fechaHora |-> None, direccion |-> None]

\* a variant of arrayUnion that replaces the array by the new element
arrayUnion_replace(array, element) == <<element>>

\* FieldValue.arrayUnion(element) applied to an array field
arrayUnion(array, element) ==
    IF \E i \in DOMAIN array : array[i] = element THEN array ELSE Append(array, element)

\* the update of the candidate record at the end of scheduleInterview;
\* stamp is the value of Date.now() in the ids of the event and the application
ScheduledCandidate(candidate, interviewData, stamp) ==
    [ candidate EXCEPT
        !.entrevista = Some([ tiendaId |-> interviewData.tiendaId,
                              vacanteId |-> interviewData.vacanteId,
                              fechaHora |-> interviewData.fechaHora,
                              direccion |-> interviewData.direccion,
                              calendarEventId |-> Some(stamp),
                              estado |-> Some("programada"),
                              confirmada |-> Some(FALSE),
                              reprogramada |-> None ]),
        !.estado = Some("entrevista_programada"),
        !.applications =
            arrayUnion(@, [ id |-> stamp,
                            tiendaId |-> IF Present(candidate.storeSelection)
                                         THEN candidate.storeSelection
                                         ELSE interviewData.tiendaId,
                            status |-> "interview_scheduled" ]) ]

\* a variant of scheduleInterview that creates the calendar event before it
\* looks for the candidate
scheduleInterview_eventFirst(candidate, interviewData, stamp) ==
    IF ~Present(interviewData.fechaHora)
    THEN [candidate |-> candidate, error |-> Some("Invalid time value"), events |-> 0]
    ELSE IF ~candidate.exists
    THEN [candidate |-> candidate, error |-> Some("Candidate not found"), events |-> 1]
    ELSE [ candidate |-> ScheduledCandidate(candidate, interviewData, stamp),
           error |-> None, events |-> 1 ]

\* The result is the candidate record afterwards, the error thrown (None when
\* the call succeeds) and the number of calendar events created.
\* new Date(undefined).toISOString() throws before the calendar event is
\* created; update() rejects a field whose value is undefined.
scheduleInterview(candidate, interviewData, stamp) ==
    IF ~candidate.exists
    THEN [candidate |-> candidate, error |-> Some("Candidate not found"), events |-> 0]
    ELSE IF ~Present(interviewData.fechaHora)
    THEN [candidate |-> candidate, error |-> Some("Invalid time value"), events |-> 0]
    ELSE IF \/ ~Present(interviewData.tiendaId)
            \/ ~Present(interviewData.vacanteId)
            \/ ~Present(interviewData.direccion)
    THEN [candidate |-> candidate, error |-> Some("Cannot use undefined"), events |-> 1]
    ELSE [ candidate |-> ScheduledCandidate(candidate, interviewData, stamp),
           error |-> None, events |-> 1 ]

\* the entrevista map of a record, for an update of one of its fields
EntrevistaOf(candidate) ==
    IF Present(candidate.entrevista) THEN Val(candidate.entrevista) ELSE NoEntrevista

\* a variant of confirmInterview that leaves the top-level state
confirmInterview_flagOnly(candidate) ==
    IF ~candidate.exists
    THEN [candidate |-> candidate, error |-> Some("No document to update")]
    ELSE [ candidate |->
             [ candidate EXCEPT
                 !.entrevista = Some([EntrevistaOf(candidate) EXCEPT
                                         !.confirmada = Some(TRUE)]) ],
           error |-> None ]

\* update() of a missing document fails
confirmInterview(candidate) ==
    IF ~candidate.exists
    THEN [candidate |-> candidate, error |-> Some("No document to update")]
    ELSE [ candidate |->
             [ candidate EXCEPT
                 !.entrevista = Some([EntrevistaOf(candidate) EXCEPT
                                         !.confirmada = Some(TRUE)]),
                 !.estado = Some("entrevista_confirmada") ],
           error |-> None ]

\* The record is updated before candidateData.entrevista.direccion is read
\* for the result, which throws when the record had no entrevista.
rescheduleInterview(candidate, newDateTime) ==
    IF ~candidate.exists
    THEN [candidate |-> candidate, error |-> Some("Candidate not found")]
    ELSE [ candidate |->
             [ candidate EXCEPT
                 !.entrevista = Some([EntrevistaOf(candidate) EXCEPT
                                         !.fechaHora = Some(newDateTime),
                                         !.reprogramada = Some(TRUE),
                                         !.confirmada = Some(FALSE)]),
                 !.estado = Some("entrevista_programada") ],
           error |-> IF Present(candidate.entrevista) THEN None
                     ELSE Some("Cannot read properties of undefined") ]

\* case 'schedule_interview' after the first call has returned: first is the
\* result of that call; calls counts the invocations of scheduleInterview
ScheduleRetry(first, stamp) ==
    IF first.error = Some("Candidate not found")
    THEN [ scheduleInterview(createdCandidate, ChatInterviewData, stamp)
             EXCEPT !.events = @ + first.events ] @@ [calls |-> 2]
    ELSE first @@ [calls |-> 1]

\* one iteration of the action loop of POST /api/chat
ExecuteAction(candidate, action, stamp) ==
    CASE action.type = "schedule_interview" ->
            ScheduleRetry(scheduleInterview(candidate, ChatInterviewData, stamp), stamp)
      [] action.type = "confirm_interview" ->
            confirmInterview(candidate) @@ [events |-> 0, calls |-> 0]
      [] OTHER -> [candidate |-> candidate, error |-> None, events |-> 0, calls |-> 0]

\* what the loop has done after one more iteration, whose result is one
LoopStep(sofar, one) ==
    [ candidate |-> one.candidate,
      attempted |-> sofar.attempted + 1,
      failures |-> sofar.failures + (IF Present(one.error) THEN 1 ELSE 0),
      events |-> sofar.events + one.events,
      calls |-> sofar.calls + one.calls ]

\* a variant of ExecuteLoop that stops at the first action that fails
RECURSIVE ExecuteLoop_abort(_, _, _)
ExecuteLoop_abort(sofar, actions, stamp) ==
    IF actions = <<>> \/ sofar.failures > 0 THEN sofar
    ELSE ExecuteLoop_abort(
             LoopStep(sofar, ExecuteAction(sofar.candidate, Head(actions),
                                           stamp + sofar.events)),
             Tail(actions), stamp)

\* the iterations of the loop over the remaining actions
RECURSIVE ExecuteLoop(_, _, _)
ExecuteLoop(sofar, actions, stamp) ==
    IF actions = <<>> THEN sofar
    ELSE ExecuteLoop(
             LoopStep(sofar, ExecuteAction(sofar.candidate, Head(actions),
                                           stamp + sofar.events)),
             Tail(actions), stamp)

\* the action loop: the candidate record afterwards, the number of actions
\* whose execution was attempted, the number of those that failed, and the
\* calendar events created and scheduleInterview calls made on the way
ExecuteActions(candidate, actions, stamp) ==
    ExecuteLoop([candidate |-> candidate, attempted |-> 0, failures |-> 0,
                 events |-> 0, calls |-> 0],
                actions, stamp)

\* ------------------------------------------------------------------------
\* GeolocationService and StoreMatcher.findMatchingStores
\*
\* A coordinate is an integer number of thousandths of a degree and a
\* distance an integer number of hundredths of a kilometre, so that the
\* rounding of calculateDistance to two decimals is the identity on the
\* values compared.  The haversine formula is evaluated in fixed point in
\* its form for separations of a fraction of a degree,
\*     d = R * (pi / 180) * sqrt(dLat^2 + cos(lat1) * cos(lat2) * dLon^2),
\* which on the coordinates used here has the value of the source formula.
\* ------------------------------------------------------------------------
\* what calculateDistance returns for a falsy coordinate
Infinity == 999999999

\* Math.abs
Abs(x) == IF x < 0 THEN 0 - x ELSE x

\* 1000 * Math.cos(deg2rad(d)) for the whole degrees d = 0, 1, ..., 13
CosTable == <<1000, 1000, 999, 999, 998, 996, 995, 993, 990, 988, 985, 982, 978, 974>>

\* 1000 * Math.cos(deg2rad(lat)) of a latitude in thousandths of a degree
Cos(lat) == CosTable[(Abs(lat) \div 1000) + 1]

\* the largest r in lo..hi with r * r <= x
RECURSIVE SqrtBetween(_, _, _)
SqrtBetween(x, lo, hi) ==
    IF lo >= hi THEN lo
    ELSE LET mid == (lo + hi + 1) \div 2
         IN  IF mid * mid <= x THEN SqrtBetween(x, mid, hi)
             ELSE SqrtBetween(x, lo, mid - 1)

\* Math.sqrt, rounded down
Sqrt(x) == SqrtBetween(x, 0, 46340)

\* calculateDistance(lat1, lon1, lat2, lon2) of optional numbers, in
\* hundredths of a kilometre; R * pi / 180 is 111.195 km per degree
calculateDistance(lat1, lon1, lat2, lon2) ==
    IF ~TruthyNum(lat1) \/ ~TruthyNum(lon1) \/ ~TruthyNum(lat2) \/ ~TruthyNum(lon2)
    THEN Infinity
    ELSE LET dLat == Val(lat2) - Val(lat1)
             dLon == Val(lon2) - Val(lon1)
             a == dLat * dLat * 1000
                  + ((Cos(Val(lat1)) * Cos(Val(lat2))) \div 1000) * dLon * dLon
         IN  (Sqrt(a * 10) * 111195 + 500000) \div 1000000

\* entries of DISTRICT_COORDINATES, in the order of the table
DISTRICT_COORDINATES ==
    << [name |-> <<"l", "i", "m", "a">>,
        lat |-> -12046, lng |-> -77043],
       [name |-> <<"l", "i", "n", "c", "e">>,
        lat |-> -12087, lng |-> -77040],
       [name |-> <<"m", "i", "r", "a", "f", "l", "o", "r", "e", "s">>,
        lat |-> -12111, lng |-> -77032],
       [name |-> <<"s", "a", "n", " ", "i", "s", "i", "d", "r", "o">>,
        lat |-> -12095, lng |-> -77036],
       [name |-> <<"l", "u", "r", "i'", "n">>,
        lat |-> -12274, lng |-> -76871],
       [name |-> <<"s", "a", "n", " ", "j", "u", "a", "n", " ", "d", "e", " ", "m", "i", "r", "a", "f", "l", "o", "r", "e", "s">>,
        lat |-> -12163, lng |-> -76964],
       [name |-> <<"s", "a", "n", "t", "i", "a", "g", "o", " ", "d", "e", " ", "s", "u", "r", "c", "o">>,
        lat |-> -12134, lng |-> -76986],
       [name |-> <<"s", "u", "r", "c", "o">>,
        lat |-> -12134, lng |-> -76986],
       [name |-> <<"a", "t", "e">>,
        lat |-> -12029, lng |-> -76936] >>

\* .normalize("NFD") followed by the removal of the combining marks
RemoveAccents(s) == [i \in DOMAIN s |-> IF s[i] = "i'" THEN "i" ELSE s[i]]

\* getDistrictCoordinates(districtName): the coordinates of the first entry
\* whose name contains the normalised input or is contained in it, or None
getDistrictCoordinates(districtName) ==
    IF ~TruthyStr(districtName) THEN None
    ELSE LET normalized == RemoveAccents(Trim(ToLowerCase(Val(districtName))))
             hits == { i \in DOMAIN DISTRICT_COORDINATES :
                         \/ Includes(normalized, RemoveAccents(DISTRICT_COORDINATES[i].name))
                         \/ Includes(RemoveAccents(DISTRICT_COORDINATES[i].name), normalized) }
         IN  IF hits = {} THEN None
             ELSE Some([ lat |-> Some(DISTRICT_COORDINATES[Min(hits)].lat),
                         lng |-> Some(DISTRICT_COORDINATES[Min(hits)].lng) ])

\* the values of tipoTurno and disponibilidad
Rotativos == <<"r", "o", "t", "a", "t", "i", "v", "o", "s">>

Cierres == <<"c", "i", "e", "r", "r", "e", "s">>

Mixto == <<"m", "i", "x", "t", "o">>

validShifts == {Rotativos, Cierres, Mixto}

\* CandidateValidator.validateShiftAvailability(availability, requiredShift).valid
validateShiftAvailability(availability, requiredShift) ==
    IF ~TruthyStr(availability) THEN FALSE
    ELSE LET normalizedAvailability == Trim(ToLowerCase(Val(availability)))
             normalizedRequired == Trim(ToLowerCase(requiredShift))
         IN  IF normalizedAvailability \notin validShifts THEN FALSE
             ELSE IF normalizedRequired = Mixto THEN TRUE
             ELSE normalizedRequired = normalizedAvailability
                  \/ normalizedAvailability = Mixto

\* a variant of isShiftCompatible that accepts every vacancy
isShiftCompatible_any(vacante, disponibilidad) == TRUE

\* isShiftCompatible of findMatchingStores
isShiftCompatible(vacante, disponibilidad) ==
    \/ vacante.tipoTurno = Mixto
    \/ disponibilidad = Some(Mixto)
    \/ Some(vacante.tipoTurno) = disponibilidad

\* the query on the vacancies of a store: estado == 'activo' and
\* cuposDisponibles > 0
ActiveVacancies(vacantes) ==
    SelectSeq(vacantes, LAMBDA v : v.estado = "activo" /\ v.cuposDisponibles > 0)

\* compatibleVacancies
CompatibleVacancies(tienda, disponibilidad) ==
    SelectSeq(ActiveVacancies(tienda.vacantes),
              LAMBDA v : isShiftCompatible(v, disponibilidad))

\* compatibleVacancies.reduce((sum, v) => sum + v.cuposDisponibles, 0)
RECURSIVE SumCupos(_)
SumCupos(vacantes) ==
    IF vacantes = <<>> THEN 0
    ELSE SumCupos(SubSeq(vacantes, 1, Len(vacantes) - 1))
         + vacantes[Len(vacantes)].cuposDisponibles

\* storeLocation: explicit lat and lng, else the coordinates object, else
\* the coordinates of the district, else None
StoreLocation(tienda) ==
    IF TruthyNum(tienda.lat) /\ TruthyNum(tienda.lng)
    THEN Some([lat |-> tienda.lat, lng |-> tienda.lng])
    ELSE IF Present(tienda.coordinates) THEN tienda.coordinates
    ELSE getDistrictCoordinates(tienda.distrito)

\* candidateLocation
CandidateLocation(candidateData) ==
    IF TruthyNum(candidateData.lat) /\ TruthyNum(candidateData.lng)
    THEN Some([lat |-> candidateData.lat, lng |-> candidateData.lng])
    ELSE getDistrictCoordinates(candidateData.distrito)

MAX_DISTANCE_KM == 700

\* the distance from the candidate to a store whose location is resolved
StoreDistance(candidateLocation, tienda) ==
    calculateDistance(candidateLocation.lat, candidateLocation.lng,
                      Val(StoreLocation(tienda)).lat, Val(StoreLocation(tienda)).lng)

\* a variant of StoreMatches without the distance filter
StoreMatches_anyDistance(candidateLocation, tienda, disponibilidad) ==
    IF ~Present(StoreLocation(tienda)) THEN <<>>
    ELSE IF CompatibleVacancies(tienda, disponibilidad) = <<>> THEN <<>>
    ELSE << [ tienda |-> [ id |-> tienda.id,
                           distanceKm |-> StoreDistance(candidateLocation, tienda) ],
              vacantes |-> CompatibleVacancies(tienda, disponibilidad),
              totalCupos |-> SumCupos(CompatibleVacancies(tienda, disponibilidad)),
              distancePriority |-> StoreDistance(candidateLocation, tienda) ] >>

\* one iteration of the loop over the stores: the match pushed, if any
StoreMatches(candidateLocation, tienda, disponibilidad) ==
    IF ~Present(StoreLocation(tienda)) THEN <<>>
    ELSE IF StoreDistance(candidateLocation, tienda) > MAX_DISTANCE_KM THEN <<>>
    ELSE IF CompatibleVacancies(tienda, disponibilidad) = <<>> THEN <<>>
    ELSE << [ tienda |-> [ id |-> tienda.id,
                           distanceKm |-> StoreDistance(candidateLocation, tienda) ],
              vacantes |-> CompatibleVacancies(tienda, disponibilidad),
              totalCupos |-> SumCupos(CompatibleVacancies(tienda, disponibilidad)),
              distancePriority |-> StoreDistance(candidateLocation, tienda) ] >>

\* the loop over the stores in the order of the snapshot
RECURSIVE CollectMatches(_, _, _)
CollectMatches(candidateLocation, tiendas, disponibilidad) ==
    IF tiendas = <<>> THEN <<>>
    ELSE StoreMatches(candidateLocation, Head(tiendas), disponibilidad)
         \o CollectMatches(candidateLocation, Tail(tiendas), disponibilidad)

\* the comparator passed to matches.sort; 0.5 km is 50 hundredths
CompareMatches(a, b) ==
    IF Abs(a.distancePriority - b.distancePriority) > 50
    THEN a.distancePriority - b.distancePriority
    ELSE b.totalCupos - a.totalCupos

\* Array.prototype.sort of an array of fewer than 64 elements: the run at
\* the start of the array is found (and reversed when it descends), and
\* each of the elements after it is inserted by binary search.
RECURSIVE RunEnd(_, _, _)
RunEnd(matches, idx, descending) ==
    IF idx = Len(matches) THEN idx
    ELSE IF descending = (CompareMatches(matches[idx + 1], matches[idx]) < 0)
    THEN RunEnd(matches, idx + 1, descending)
    ELSE idx

Reverse(s) == [i \in DOMAIN s |-> s[Len(s) + 1 - i]]

RECURSIVE BinarySearch(_, _, _, _)
BinarySearch(matches, pivot, left, right) ==
    IF left >= right THEN left
    ELSE IF CompareMatches(pivot, matches[left + ((right - left) \div 2)]) < 0
    THEN BinarySearch(matches, pivot, left, left + ((right - left) \div 2))
    ELSE BinarySearch(matches, pivot, left + ((right - left) \div 2) + 1, right)

\* the array after the element at start has been inserted at position pos
InsertAt(matches, start, pos) ==
    SubSeq(matches, 1, pos - 1) \o <<matches[start]>>
    \o SubSeq(matches, pos, start - 1) \o SubSeq(matches, start + 1, Len(matches))

RECURSIVE BinaryInsertionSort(_, _)
BinaryInsertionSort(matches, start) ==
    IF start > Len(matches) THEN matches
    ELSE BinaryInsertionSort(
             InsertAt(matches, start, BinarySearch(matches, matches[start], 1, start)),
             start + 1)

\* the array with its first run made ascending, then the rest inserted
SortFrom(matches, run, descending) ==
    BinaryInsertionSort(
        IF descending
        THEN Reverse(SubSeq(matches, 1, run)) \o SubSeq(matches, run + 1, Len(matches))
        ELSE matches,
        run + 1)

\* matches.sort(comparator)
SortMatches(matches) ==
    IF Len(matches) < 2 THEN matches
    ELSE SortFrom(matches,
                  RunEnd(matches, 2, CompareMatches(matches[2], matches[1]) < 0),
                  CompareMatches(matches[2], matches[1]) < 0)

\* matches.slice(0, 3)
TopMatches(matches) == SubSeq(matches, 1, IF Len(matches) < 3 THEN Len(matches) ELSE 3)

\* the matches found once the candidate's location is known
MatchesFrom(candidateLocation, tiendas, disponibilidad) ==
    TopMatches(SortMatches(CollectMatches(candidateLocation, tiendas, disponibilidad)))

\* findMatchingStores(candidateData) against the stores collections;
\* tiendas[t] is the snapshot of the stores of tenant t
findMatchingStores(candidateData, tiendas) ==
    IF ~Present(candidateData.tenant_id) THEN <<>>
    ELSE IF ~Present(CandidateLocation(candidateData)) THEN <<>>
    ELSE MatchesFrom(Val(CandidateLocation(candidateData)),
                     tiendas[Val(candidateData.tenant_id)],
                     candidateData.disponibilidad)

\* ------------------------------------------------------------------------
\* CandidateValidator: the results are [thrown, valid, message, value];
\* thrown tells that the call ended with a TypeError instead of a result
\* ------------------------------------------------------------------------
Invalid(message) ==
    [thrown |-> FALSE, valid |-> FALSE, message |-> Some(message), value |-> None]

Valid(value) ==
    [thrown |-> FALSE, valid |-> TRUE, message |-> None, value |-> value]

Thrown == [thrown |-> TRUE, valid |-> FALSE, message |-> None, value |-> None]

\* dni.toString().replace(/\D/g, '')
OnlyDigits(s) == SelectSeq(s, IsDigit)

\* CandidateValidator.validateDNI: cleanDNI holds digits only, so that the
\* test of /^\d{8}$/ never fails
validateDNI(dni) ==
    IF ~TruthyStr(dni) THEN Invalid("DNI es requerido")
    ELSE LET cleanDNI == OnlyDigits(Val(dni))
         IN  IF Len(cleanDNI) # 8 THEN Invalid("DNI debe tener 8 digitos")
             ELSE IF \E i \in DOMAIN cleanDNI : ~IsDigit(cleanDNI[i])
             THEN Invalid("DNI debe contener solo numeros")
             ELSE Valid(Some(cleanDNI))

\* the time zones of the process: getFullYear, getMonth and getDate give the
\* date in the zone of the process
TimeZones == {"UTC", "America/Lima"}

\* the day before a date
PreviousDay(date) ==
    IF date[3] > 1 THEN <<date[1], date[2], date[3] - 1>>
    ELSE IF date[2] > 1 THEN <<date[1], date[2] - 1, DaysInMonth(date[1], date[2] - 1)>>
    ELSE <<date[1] - 1, 12, 31>>

\* YYYY-MM-DD, the date-only form of ISO 8601
IsoText(date) ==
    NatToStr(date[1]) \o <<"-">> \o PadStart2(date[2]) \o <<"-">> \o PadStart2(date[3])

\* DD/MM/YYYY, the form in which the chatbot stores fechaNacimiento
SlashText(date) ==
    PadStart2(date[3]) \o <<"/">> \o PadStart2(date[2]) \o <<"/">> \o NatToStr(date[1])

\* the positions of a text of ten characters at which a digit must stand
DigitsAt(s, positions) == Len(s) = 10 /\ \A i \in positions : IsDigit(s[i])

\* new Date(birthDate) as the local date <<year, month, day>> of the
\* process, None for an Invalid Date.  birthDate is a Date, or one of the
\* texts of the model: a date-only ISO text is midnight UTC, which west of
\* Greenwich is the evening of the day before; a text NN/NN/NNNN is read by
\* V8 as month/day/year in local time; every other text here is invalid.
ParseDate(birthDate, zone) ==
    IF birthDate.form = "Date" THEN Some(birthDate.date)
    ELSE LET s == birthDate.text
         IN  IF DigitsAt(s, {1, 2, 3, 4, 6, 7, 9, 10}) /\ s[5] = "-" /\ s[8] = "-"
             THEN LET year  == ParseInt(SubSeq(s, 1, 4))
                      month == ParseInt(SubSeq(s, 6, 7))
                      day   == ParseInt(SubSeq(s, 9, 10))
                  IN  IF month \in 1..12 /\ day >= 1 /\ day <= DaysInMonth(year, month)
                      THEN Some(IF zone = "UTC" THEN <<year, month, day>>
                                ELSE PreviousDay(<<year, month, day>>))
                      ELSE None
             ELSE IF DigitsAt(s, {1, 2, 4, 5, 7, 8, 9, 10}) /\ s[3] = "/" /\ s[6] = "/"
             THEN LET month == ParseInt(SubSeq(s, 1, 2))
                      day   == ParseInt(SubSeq(s, 4, 5))
                      year  == ParseInt(SubSeq(s, 7, 10))
                  IN  IF month \in 1..12 /\ day \in 1..31
                      THEN Some(NewDate(year, month, day))
                      ELSE None
             ELSE None

\* CandidateValidator.validateAge: value is the age
validateAge(birthDate, now, zone) ==
    IF ~Present(birthDate) THEN Invalid("Fecha de nacimiento es requerida")
    ELSE IF ~Present(ParseDate(Val(birthDate), zone))
    THEN Invalid("Fecha de nacimiento invalida")
    ELSE LET age == AgeOn(Val(ParseDate(Val(birthDate), zone)), now)
         IN  IF age < 18
             THEN [Invalid("Debes ser mayor de 18 anos") EXCEPT !.value = Some(age)]
             ELSE IF age > 60
             THEN [Invalid("La edad maxima para postular es 60 anos")
                      EXCEPT !.value = Some(age)]
             ELSE Valid(Some(age))

\* CandidateValidator.validateShiftAvailability with its result:
\* requiredShift.toLowerCase() throws when requiredShift is undefined or null
validateShiftAvailabilityResult(availability, requiredShift) ==
    IF ~TruthyStr(availability) THEN Invalid("Disponibilidad de turno es requerida")
    ELSE IF ~Present(requiredShift) THEN Thrown
    ELSE IF Trim(ToLowerCase(Val(availability))) \notin validShifts
    THEN Invalid("Disponibilidad debe ser: rotativos, cierres, mixto")
    ELSE IF validateShiftAvailability(availability, Val(requiredShift)) THEN Valid(None)
    ELSE Invalid("Esta vacante requiere otra disponibilidad")

\* CandidateValidator.validatePhone
validatePhone(phone) ==
    IF ~TruthyStr(phone) THEN Invalid("Telefono es requerido")
    ELSE LET cleanPhone == OnlyDigits(Val(phone))
         IN  IF Len(cleanPhone) # 9 THEN Invalid("Telefono debe tener 9 digitos")
             ELSE IF cleanPhone[1] # "9" THEN Invalid("Telefono movil debe empezar con 9")
             ELSE Valid(Some(cleanPhone))

\* the accented letters that the pattern of validateName admits
NameAccents ==
    {"a'", "e'", "i'", "o'", "u'", "n~", "N~", "A'", "E'", "I'", "O'", "U'"}

\* trimmedName.split(/\s+/).length
WordCount(s) ==
    Cardinality({i \in DOMAIN s : ~IsSpace(s[i]) /\ (i = 1 \/ IsSpace(s[i - 1]))})

\* CandidateValidator.validateName
validateName(name) ==
    IF ~TruthyStr(name) THEN Invalid("Nombre completo es requerido")
    ELSE LET trimmedName == Trim(Val(name))
         IN  IF Len(trimmedName) < 3 THEN Invalid("Nombre debe tener al menos 3 caracteres")
             ELSE IF WordCount(trimmedName) < 2 THEN Invalid("Debes ingresar nombre y apellido")
             ELSE IF \E i \in DOMAIN trimmedName :
                        ~(IsAsciiLetter(trimmedName[i]) \/ IsSpace(trimmedName[i])
                              \/ trimmedName[i] \in NameAccents)
             THEN Invalid("Nombre debe contener solo letras")
             ELSE Valid(Some(trimmedName))

\* the results of the four field validators that validateCandidate calls
FieldResults(candidateData, now, zone) ==
    << validateName(candidateData.nombre), validateDNI(candidateData.dni),
       validatePhone(candidateData.telefono),
       validateAge(candidateData.fechaNacimiento, now, zone) >>

\* the messages of the results that are not valid, in order
ErrorsOf(results) ==
    LET failing == SelectSeq(results, LAMBDA r : ~r.valid)
    IN  [i \in DOMAIN failing |-> Val(failing[i].message)]

\* CandidateValidator.validateCandidate: the result is [thrown, valid,
\* errors, data]; candidateData.nombre throws when candidateData is absent
validateCandidate(candidateData, tenant_id, now, zone) ==
    IF ~Present(candidateData)
    THEN [thrown |-> TRUE, valid |-> FALSE, errors |-> <<>>, data |-> None]
    ELSE LET results == FieldResults(Val(candidateData), now, zone)
             errors == ErrorsOf(results)
             isValid == errors = <<>>
         IN  [ thrown |-> FALSE, valid |-> isValid, errors |-> errors,
               data |-> IF ~isValid THEN None
                        ELSE Some([ tenant_id |-> tenant_id,
                                    nombre |-> results[1].value,
                                    dni |-> results[2].value,
                                    telefono |-> results[3].value,
                                    edad |-> results[4].value,
                                    fechaNacimiento |->
                                        ParseDate(Val(Val(candidateData).fechaNacimiento), zone),
                                    distrito |->
                                        IF TruthyStr(Val(candidateData).distrito)
                                        THEN Some(Trim(Val(Val(candidateData).distrito)))
                                        ELSE None,
                                    disponibilidad |->
                                        IF TruthyStr(Val(candidateData).disponibilidad)
                                        THEN Some(Trim(ToLowerCase(
                                                 Val(Val(candidateData).disponibilidad))))
                                        ELSE None ]) ]

\* ------------------------------------------------------------------------
\* State and behaviour
\* ------------------------------------------------------------------------
VARIABLES
    conversaciones,        \* phone |-> conversation document
    postulantes,           \* <<tenant, phone>> |-> candidate record
    originToTenantCache,   \* TenantService.originToTenantCache
    calendar,              \* the number of calendar events created so far
    today,                 \* the day of the run
    faults,                \* the number of requests so far in which an injected failure threw
    inflight,              \* the requests being processed step by step, by slot
    written,               \* what the requests processed step by step have written so far
    last                   \* the last request handled and its response

vars == <<conversaciones, postulantes, originToTenantCache, calendar, today, faults,
          inflight, written, last>>

NoRequest == [op |-> "none"]

\* the requests that the server processes at the same time
Slots == {1, 2}

\* a slot that processes no request
Idle == [pc |-> "idle"]

\* Nothing written yet.  log lists the messages in the order in which their
\* writes completed, data merges the extracted data in the order in which
\* their writes completed, overlapped tells whether two requests have been
\* in process at the same time, turns counts the requests answered, and
\* scheduled counts the schedule_interview actions that the endpoint has
\* executed for the conversation since it was created or reset.
NothingWritten ==
    [ log |-> <<>>, data |-> EmptyData, overlapped |-> FALSE, turns |-> 0,
      scheduled |-> 0 ]

Init ==
    /\ conversaciones = [p \in Phones |-> NoConversation]
    /\ postulantes = [k \in Tenants \X Phones |-> NoCandidate]
    /\ originToTenantCache = [o \in AllOrigins |-> None]
    /\ calendar = 0
    /\ today \in Dates
    /\ faults = 0
    /\ inflight = [s \in Slots |-> Idle]
    /\ written = NothingWritten
    /\ last = NoRequest

\* the candidate record of a phone under a tenant id
CandidateOf(records, tenant_id, phone) ==
    IF <<tenant_id, phone>> \in DOMAIN records THEN records[<<tenant_id, phone>>]
    ELSE NoCandidate

\* POST /api/chat with body {phone, message, origin_id}, all three present;
\* fault names the step of processMessage that throws in this request
Chat(phone, message, origin_id, fault) ==
    \E resolved \in {getTenantIdFromOrigin(originToTenantCache, origin_id)} :
        IF ~Present(resolved.tenant_id)
        THEN /\ last' = [ op |-> "chat", status |-> 500, phone |-> phone,
                          origin_id |-> origin_id, lookups |-> resolved.lookups ]
             /\ originToTenantCache' = resolved.cache
             /\ UNCHANGED <<conversaciones, postulantes, calendar, today, faults, inflight, written>>
        ELSE \E tenant_id \in resolved.tenant_id :
             \E turn \in {processMessage(conversaciones[phone], message, origin_id,
                                         tenant_id, today, fault)} :
             \E done \in {ExecuteActions(CandidateOf(postulantes, tenant_id, phone),
                                         turn.result.actions, calendar + 1)} :
                 /\ conversaciones' = [conversaciones EXCEPT ![phone] = turn.doc]
                 /\ postulantes' = IF <<tenant_id, phone>> \in DOMAIN postulantes
                                   THEN [postulantes EXCEPT ![<<tenant_id, phone>>] = done.candidate]
                                   ELSE postulantes
                 /\ originToTenantCache' = resolved.cache
                 /\ calendar' = calendar + done.events
                 /\ last' = [ op |-> "chat", status |-> 200, phone |-> phone,
                              origin_id |-> origin_id, tenant_id |-> tenant_id,
                              lookups |-> resolved.lookups,
                              message |-> message,
                              thrown |-> turn.thrown,
                              tenantChanged |-> turn.tenantChanged,
                              currentState |-> turn.currentState,
                              response |-> turn.result.response,
                              state |-> turn.result.newState,
                              actions |-> turn.result.actions,
                              attempted |-> done.attempted,
                              failures |-> done.failures,
                              calls |-> done.calls ]
                 /\ faults' = IF turn.thrown /\ fault # "none" THEN faults + 1 ELSE faults
                 /\ UNCHANGED <<today, inflight, written>>

\* a message on the line of the first tenant, processed without any step throwing
ChatTurn == \E p \in Phones, m \in Messages : Chat(p, m, DefaultOrigin, "none")

Next == ChatTurn

Spec == Init /\ [][Next]_vars

\* a message on the line of any tenant, processed without any step throwing
ChatAnyOrigin == \E p \in Phones, m \in BriefMessages, o \in Origins : Chat(p, m, o, "none")

NextTenants == ChatAnyOrigin

SpecTenants == Init /\ [][NextTenants]_vars

\* a message on the line of the first tenant, out of the brief set
ChatBrief == \E p \in Phones, m \in BriefMessages : Chat(p, m, DefaultOrigin, "none")

\* a message during whose processing one step of processMessage throws
ChatFault ==
    /\ faults < MaxFaults
    /\ \E p \in Phones, m \in BriefMessages, f \in FaultPoints :
          Chat(p, m, DefaultOrigin, f)

NextFault == ChatBrief \/ ChatFault

SpecFault == Init /\ [][NextFault]_vars

\* interview data as a caller of scheduleInterview may pass it
InterviewDataSamples ==
    { ChatInterviewData,
      [tiendaId |-> Some("T1"), vacanteId |-> Some("V1"),
       fechaHora |-> Some(1), direccion |-> Some("Av. Test 123")],
      [tiendaId |-> Some("T1"), vacanteId |-> Some("V1"),
       fechaHora |-> Some(1), direccion |-> None] }

\* the largest number of calendar events created in a run of the scheduler
MaxEvents == 3

\* the dates and times an interview is moved to
NewDateTimes == {2, 3}

\* a candidate record is created under an id that has none: by the chat
\* endpoint before its retry, or by a caller that has saved a store selection
CreateCandidate(k, store) ==
    /\ ~postulantes[k].exists
    /\ postulantes' = [postulantes EXCEPT ![k] = [createdCandidate EXCEPT !.storeSelection = store]]
    /\ last' = [op |-> "createCandidate", key |-> k, before |-> postulantes[k].estado,
                     error |-> None]
    /\ UNCHANGED <<conversaciones, originToTenantCache, calendar, today, faults, inflight, written>>

\* Scheduler.scheduleInterview(tenant_id, candidateId, interviewData)
ScheduleInterview(k, interviewData) ==
    /\ calendar < MaxEvents
    /\ \E r \in {scheduleInterview(postulantes[k], interviewData, calendar + 1)} :
          /\ postulantes' = [postulantes EXCEPT ![k] = r.candidate]
          /\ calendar' = calendar + r.events
          /\ last' = [op |-> "scheduleInterview", key |-> k, before |-> postulantes[k].estado,
                     error |-> r.error]
    /\ UNCHANGED <<conversaciones, originToTenantCache, today, faults, inflight, written>>

\* Scheduler.confirmInterview(tenant_id, candidateId)
ConfirmInterview(k) ==
    /\ \E r \in {confirmInterview(postulantes[k])} :
          /\ postulantes' = [postulantes EXCEPT ![k] = r.candidate]
          /\ last' = [op |-> "confirmInterview", key |-> k, before |-> postulantes[k].estado,
                     error |-> r.error]
    /\ UNCHANGED <<conversaciones, originToTenantCache, calendar, today, faults, inflight, written>>

\* Scheduler.rescheduleInterview(tenant_id, candidateId, newDateTime)
RescheduleInterview(k, newDateTime) ==
    /\ \E r \in {rescheduleInterview(postulantes[k], newDateTime)} :
          /\ postulantes' = [postulantes EXCEPT ![k] = r.candidate]
          /\ last' = [op |-> "rescheduleInterview", key |-> k, before |-> postulantes[k].estado,
                     error |-> r.error]
    /\ UNCHANGED <<conversaciones, originToTenantCache, calendar, today, faults, inflight, written>>

NextScheduler ==
    \/ \E k \in DOMAIN postulantes, store \in {None, Some("T1")} : CreateCandidate(k, store)
    \/ \E k \in DOMAIN postulantes, d \in InterviewDataSamples : ScheduleInterview(k, d)
    \/ \E k \in DOMAIN postulantes : ConfirmInterview(k)
    \/ \E k \in DOMAIN postulantes, t \in NewDateTimes : RescheduleInterview(k, t)

SpecScheduler == Init /\ [][NextScheduler]_vars

\* the points between which distances are asked for
Latitudes == {0, -12046, -12073, -12116}

Longitudes == {0, -77043, -77013}

Points == [lat : {Some(x) : x \in Latitudes}, lng : {Some(x) : x \in Longitudes}]

\* a vacancy document
Vacante(id, estado, cupos, tipoTurno) ==
    [id |-> id, estado |-> estado, cuposDisponibles |-> cupos, tipoTurno |-> tipoTurno]

\* a store document with explicit lat and lng
TiendaAt(id, lat, lng, vacantes) ==
    [ id |-> id, lat |-> Some(lat), lng |-> Some(lng), coordinates |-> None,
      distrito |-> None, vacantes |-> vacantes ]

\* the store documents a tenant's collection is drawn from
StorePool ==
    { TiendaAt("T1", -12073, -77043, <<Vacante("V1", "activo", 5, Rotativos)>>),
      TiendaAt("T2", -12076, -77043, <<Vacante("V2", "activo", 12, Mixto)>>),
      TiendaAt("T3", -12080, -77043, <<Vacante("V3", "activo", 5, Rotativos)>>),
      TiendaAt("T4", -12077, -77043, <<Vacante("V4", "activo", 5, Rotativos)>>),
      TiendaAt("T5", -12116, -77043, <<Vacante("V5", "activo", 9, Mixto)>>),
      [ id |-> "T6", lat |-> Some(0), lng |-> Some(-77043),
        coordinates |-> Some([lat |-> Some(0), lng |-> Some(-77043)]),
        distrito |-> Some(<<"l", "i", "m", "a">>),
        vacantes |-> <<Vacante("V6", "activo", 4, Mixto)>> ],
      [ id |-> "T7", lat |-> None, lng |-> None, coordinates |-> None,
        distrito |-> Some(<<"L", "i", "n", "c", "e">>),
        vacantes |-> << Vacante("V7a", "inactivo", 7, Mixto),
                        Vacante("V7b", "activo", 0, Mixto),
                        Vacante("V7c", "activo", 3, Cierres),
                        Vacante("V7d", "activo", 2, Rotativos) >> ],
      [ id |-> "T8", lat |-> None, lng |-> None, coordinates |-> None,
        distrito |-> Some(<<"x", "y", "z">>),
        vacantes |-> <<Vacante("V8", "activo", 6, Mixto)>> ] }

\* the largest number of stores in the collection of the first tenant
MaxStores == 4

\* the snapshots of a collection: the documents in any order
StoreLists ==
    { s \in UNION {[1..n -> StorePool] : n \in 0..MaxStores} :
        \A i, j \in DOMAIN s : i # j => s[i] # s[j] }

\* the stores of the second tenant
OtherTenantStores ==
    <<TiendaAt("A1", -12050, -77043, <<Vacante("W1", "activo", 8, Mixto)>>)>>

\* the candidate data findMatchingStores is called with
MatchRequests ==
    { [tenant_id |-> t, distrito |-> d, disponibilidad |-> Some(s), lat |-> None, lng |-> None] :
        t \in {Some("ngr")}, d \in {Some(<<"L", "i", "m", "a">>)}, s \in validShifts }
    \cup
    { [tenant_id |-> Some("ngr"), distrito |-> None, disponibilidad |-> Some(Mixto),
       lat |-> Some(-12060), lng |-> Some(-77043)],
      [tenant_id |-> Some("ngr"), distrito |-> Some(<<"x", "y", "z">>),
       disponibilidad |-> Some(Mixto), lat |-> None, lng |-> None],
      [tenant_id |-> Some("ngr"), distrito |-> None, disponibilidad |-> Some(Mixto),
       lat |-> Some(0), lng |-> Some(-77043)],
      [tenant_id |-> Some("acme"), distrito |-> Some(<<"L", "i", "m", "a">>),
       disponibilidad |-> Some(Mixto), lat |-> None, lng |-> None],
      [tenant_id |-> None, distrito |-> Some(<<"L", "i", "m", "a">>),
       disponibilidad |-> Some(Mixto), lat |-> None, lng |-> None] }

\* the snapshots of the stores collections a request is answered from
StoreCollections ==
    { [t \in Tenants |-> IF t = "ngr" THEN stores ELSE OtherTenantStores] :
        stores \in StoreLists }

\* String.prototype.toUpperCase
ToUpperCase(s) ==
    [i \in DOMAIN s |->
        IF \E k \in DOMAIN LowerChars : LowerChars[k] = s[i]
        THEN UpperChars[CHOOSE k \in DOMAIN LowerChars : LowerChars[k] = s[i]]
        ELSE s[i]]

\* the district names getDistrictCoordinates is called with: every name of
\* the table as it stands, in capitals and without its accents, a name that
\* is not in the table, the empty text and a blank, and no name at all
DistrictInputs ==
    {None, Some(<<>>), Some(<<" ">>), Some(<<"x", "y", "z">>)}
    \cup UNION { { Some(DISTRICT_COORDINATES[i].name),
                   Some(ToUpperCase(DISTRICT_COORDINATES[i].name)),
                   Some(RemoveAccents(DISTRICT_COORDINATES[i].name)) } :
                 i \in DOMAIN DISTRICT_COORDINATES }

\* the calls of the geolocation service and of the store matcher to answer
PendingCalls ==
    { [op |-> "distanceRequest", a |-> a, b |-> b] : a \in Points, b \in Points }
    \cup
    { [op |-> "matchRequest", candidateData |-> c, tiendas |-> tiendas] :
        c \in MatchRequests, tiendas \in StoreCollections }
    \cup
    { [op |-> "districtRequest", districtName |-> d] : d \in DistrictInputs }

\* a call has arrived and is not answered yet
InitStores ==
    /\ conversaciones = [p \in Phones |-> NoConversation]
    /\ postulantes = [k \in Tenants \X Phones |-> NoCandidate]
    /\ originToTenantCache = [o \in AllOrigins |-> None]
    /\ calendar = 0
    /\ today \in Dates
    /\ faults = 0
    /\ inflight = [s \in Slots |-> Idle]
    /\ written = NothingWritten
    /\ last \in PendingCalls

\* GeolocationService.calculateDistance(a.lat, a.lng, b.lat, b.lng)
CalculateDistance ==
    /\ last.op = "distanceRequest"
    /\ last' = [ op |-> "calculateDistance", a |-> last.a, b |-> last.b,
                 d |-> calculateDistance(last.a.lat, last.a.lng, last.b.lat, last.b.lng) ]
    /\ UNCHANGED <<conversaciones, postulantes, originToTenantCache, calendar, today, faults, inflight, written>>

\* StoreMatcher.findMatchingStores(candidateData)
FindMatchingStores ==
    /\ last.op = "matchRequest"
    /\ last' = [ op |-> "findMatchingStores", candidateData |-> last.candidateData,
                 tiendas |-> last.tiendas,
                 matches |-> findMatchingStores(last.candidateData, last.tiendas) ]
    /\ UNCHANGED <<conversaciones, postulantes, originToTenantCache, calendar, today, faults, inflight, written>>

\* GeolocationService.getDistrictCoordinates(districtName)
GetDistrictCoordinates ==
    /\ last.op = "districtRequest"
    /\ last' = [ op |-> "getDistrictCoordinates", districtName |-> last.districtName,
                 coords |-> getDistrictCoordinates(last.districtName) ]
    /\ UNCHANGED <<conversaciones, postulantes, originToTenantCache, calendar, today, faults, inflight, written>>

NextStores == CalculateDistance \/ FindMatchingStores \/ GetDistrictCoordinates

SpecStores == InitStores /\ [][NextStores]_vars

\* JavaScript truthiness of an optional identifier of a request body
Given(x) == Present(x) /\ Val(x) # ""

\* a variant of MissingField that accepts an empty message
MissingField_emptyMessage(body) ==
    ~Given(body.phone) \/ ~Present(body.message) \/ ~Given(body.origin_id)

\* !phone || !message || !origin_id
MissingField(body) ==
    ~Given(body.phone) \/ ~TruthyStr(body.message) \/ ~Given(body.origin_id)

\* a body with its three fields
Body(phone, message, origin_id) ==
    [phone |-> phone, message |-> message, origin_id |-> origin_id]

\* the bodies POST /api/chat is called with: complete ones, those in which
\* one field is undefined or empty, and the empty body
Bodies ==
    { Body(Some(p), Some(m), Some(o)) : p \in Phones, m \in BriefMessages, o \in AllOrigins }
    \cup { Body(x, Some(MsgSi), Some(DefaultOrigin)) : x \in {None, Some("")} }
    \cup { Body(Some(p), x, Some(DefaultOrigin)) : p \in Phones, x \in {None, Some(<<>>)} }
    \cup { Body(Some(p), Some(MsgSi), x) : p \in Phones, x \in {None, Some("")} }
    \cup { Body(None, None, None) }

\* POST /api/chat with any body
PostChat(body) ==
    IF MissingField(body)
    THEN /\ last' = [op |-> "chat", status |-> 400, body |-> body]
         /\ UNCHANGED <<conversaciones, postulantes, originToTenantCache, calendar,
                        today, faults, inflight, written>>
    ELSE Chat(Val(body.phone), Val(body.message), Val(body.origin_id), "none")

\* TenantService.clearCache()
ClearCache ==
    /\ originToTenantCache' = clearCache(originToTenantCache)
    /\ last' = [op |-> "clearCache"]
    /\ UNCHANGED <<conversaciones, postulantes, calendar, today, faults, inflight, written>>

NextRequests ==
    \/ \E body \in Bodies : PostChat(body)
    \/ ClearCache

SpecRequests == Init /\ [][NextRequests]_vars

\* ------------------------------------------------------------------------
\* POST /api/chat processed step by step: every database operation that
\* processMessage awaits is a step of its own, and the steps of two requests
\* interleave.  getConversationHistory, buildContext and generateResponse
\* write nothing and are not steps.
\* ------------------------------------------------------------------------
\* the messages of the requests processed step by step
RaceMessages == {MsgSi, MsgDni, MsgEmail}

\* the number of requests received in a run processed step by step
MaxTurns == 2

\* a request that has just been received: conversation is what
\* getOrCreateConversation returned, read is the document that the pending
\* read-modify-write has read
Request(phone, message, origin_id, tenant_id) ==
    [ pc |-> "conv_get", phone |-> phone, message |-> message, origin_id |-> origin_id,
      tenant_id |-> tenant_id, conversation |-> NoConversation, read |-> NoConversation ]

\* const extractedData = this.extractDataFromMessage(message, candidateData, currentState)
ExtractedBy(req, now) ==
    extractDataFromMessage(req.message, req.conversation.candidateData,
                           req.conversation.estado, now)

\* const { newState, actions } = await this.determineNextState(...), on the
\* candidateData of the conversation read at the start, with the extracted
\* data assigned to it
NextStateOf(req, now) ==
    determineNextState(req.conversation.estado,
                       Merge(req.conversation.candidateData, ExtractedBy(req, now)),
                       req.message)

\* the step after the user message and the extracted data are written
AfterData(req, now) ==
    IF NextStateOf(req, now).newState # req.conversation.estado
    THEN "state_update" ELSE "reply_get"

\* the request of slot s moves to step pc
Goto(s, pc) == [inflight EXCEPT ![s].pc = pc, ![s].read = NoConversation]

\* the server receives a request and resolves its tenant; the request takes
\* the first free slot
ReceiveChat(s, phone, message, origin_id) ==
    /\ inflight[s] = Idle
    /\ \A t \in Slots : t < s => inflight[t] # Idle
    /\ written.turns + Cardinality({t \in Slots : inflight[t] # Idle}) < MaxTurns
    /\ \E resolved \in {getTenantIdFromOrigin(originToTenantCache, origin_id)} :
         /\ Present(resolved.tenant_id)
         /\ originToTenantCache' = resolved.cache
         /\ \E tenant_id \in resolved.tenant_id :
              inflight' = [inflight EXCEPT ![s] = Request(phone, message, origin_id, tenant_id)]
    /\ written' = [written EXCEPT !.overlapped = @ \/ \E t \in Slots \ {s} : inflight[t] # Idle]
    /\ UNCHANGED <<conversaciones, postulantes, calendar, today, faults, last>>

\* getOrCreateConversation: conversationRef.get()
ConversationGet(s) ==
    /\ inflight[s].pc = "conv_get"
    /\ \E doc \in {conversaciones[inflight[s].phone]} :
         inflight' =
            IF doc.exists /\ doc.tenant_id = Some(inflight[s].tenant_id)
            THEN [inflight EXCEPT ![s].pc = "user_get", ![s].conversation = doc]
            ELSE [inflight EXCEPT ![s].pc = "conv_set", ![s].read = doc]
    /\ UNCHANGED <<conversaciones, postulantes, originToTenantCache, calendar, today,
                   faults, written, last>>

\* getOrCreateConversation: conversationRef.set(newConversation), or
\* resetConversation followed by the recursive call
ConversationSet(s) ==
    /\ inflight[s].pc = "conv_set"
    /\ \E req \in {inflight[s]} :
         IF req.read.exists
         THEN /\ conversaciones' =
                   [conversaciones EXCEPT ![req.phone] =
                       resetConversation(@, req.tenant_id, req.origin_id)]
              /\ inflight' = Goto(s, "conv_get")
              /\ written' = [written EXCEPT !.log = <<>>, !.data = EmptyData,
                                             !.scheduled = 0]
         ELSE /\ conversaciones' =
                   [conversaciones EXCEPT ![req.phone] =
                       newConversation(req.tenant_id, req.origin_id)]
              /\ inflight' =
                   [inflight EXCEPT ![s].pc = "user_get", ![s].read = NoConversation,
                        ![s].conversation = newConversation(req.tenant_id, req.origin_id)]
              /\ UNCHANGED written
    /\ UNCHANGED <<postulantes, originToTenantCache, calendar, today, faults, last>>

\* addMessage(phone, 'user', message): conversationRef.get()
UserMessageGet(s) ==
    /\ inflight[s].pc = "user_get"
    /\ inflight' = [inflight EXCEPT ![s].pc = "user_update",
                                    ![s].read = conversaciones[inflight[s].phone]]
    /\ UNCHANGED <<conversaciones, postulantes, originToTenantCache, calendar, today,
                   faults, written, last>>

\* addMessage(phone, 'user', message): conversationRef.update({mensajes: [...read, message]})
UserMessageUpdate(s) ==
    /\ inflight[s].pc = "user_update"
    /\ \E req \in {inflight[s]} :
         /\ conversaciones' =
              [conversaciones EXCEPT ![req.phone].mensajes =
                  addMessage(req.read, "user", req.message).mensajes]
         /\ written' = [written EXCEPT !.log =
                           KeepLast(Append(@, [role |-> "user", content |-> req.message]),
                                    MaxHist)]
         /\ inflight' = Goto(s, IF HasKeys(ExtractedBy(req, today)) THEN "data_get"
                                ELSE AfterData(req, today))
    /\ UNCHANGED <<postulantes, originToTenantCache, calendar, today, faults, last>>

\* updateCandidateData(phone, extractedData): conversationRef.get()
CandidateDataGet(s) ==
    /\ inflight[s].pc = "data_get"
    /\ inflight' = [inflight EXCEPT ![s].pc = "data_update",
                                    ![s].read = conversaciones[inflight[s].phone]]
    /\ UNCHANGED <<conversaciones, postulantes, originToTenantCache, calendar, today,
                   faults, written, last>>

\* updateCandidateData(phone, extractedData):
\* conversationRef.update({candidateData: {...existingData, ...candidateData}})
CandidateDataUpdate(s) ==
    /\ inflight[s].pc = "data_update"
    /\ \E req \in {inflight[s]} :
         /\ conversaciones' =
              [conversaciones EXCEPT ![req.phone].candidateData =
                  updateCandidateData(req.read, ExtractedBy(req, today)).candidateData]
         /\ written' = [written EXCEPT !.data = Merge(@, ExtractedBy(req, today))]
         /\ inflight' = Goto(s, AfterData(req, today))
    /\ UNCHANGED <<postulantes, originToTenantCache, calendar, today, faults, last>>

\* updateState(phone, newState): conversationRef.update({estado: newState})
StateUpdate(s) ==
    /\ inflight[s].pc = "state_update"
    /\ \E req \in {inflight[s]} :
         conversaciones' =
            [conversaciones EXCEPT ![req.phone] =
                updateState(@, NextStateOf(req, today).newState)]
    /\ inflight' = Goto(s, "reply_get")
    /\ UNCHANGED <<postulantes, originToTenantCache, calendar, today, faults, written, last>>

\* addMessage(phone, 'assistant', aiResponse): conversationRef.get()
ReplyGet(s) ==
    /\ inflight[s].pc = "reply_get"
    /\ inflight' = [inflight EXCEPT ![s].pc = "reply_update",
                                    ![s].read = conversaciones[inflight[s].phone]]
    /\ UNCHANGED <<conversaciones, postulantes, originToTenantCache, calendar, today,
                   faults, written, last>>

\* addMessage(phone, 'assistant', aiResponse): conversationRef.update(...)
ReplyUpdate(s) ==
    /\ inflight[s].pc = "reply_update"
    /\ \E req \in {inflight[s]} :
         conversaciones' =
            [conversaciones EXCEPT ![req.phone].mensajes =
                addMessage(req.read, "assistant", AiResponse).mensajes]
    /\ written' = [written EXCEPT !.log =
                      KeepLast(Append(@, [role |-> "assistant", content |-> AiResponse]),
                               MaxHist)]
    /\ inflight' = Goto(s, "respond")
    /\ UNCHANGED <<postulantes, originToTenantCache, calendar, today, faults, last>>

\* the number of actions of a type among the actions of a turn, each of
\* which the loop of the endpoint executes
Emitted(actions, type) ==
    Cardinality({i \in DOMAIN actions : actions[i].type = type})

\* the endpoint executes the actions of the turn and answers
Respond(s) ==
    /\ inflight[s].pc = "respond"
    /\ \E req \in {inflight[s]} :
       \E next \in {NextStateOf(req, today)} :
       \E done \in {ExecuteActions(CandidateOf(postulantes, req.tenant_id, req.phone),
                                   next.actions, calendar + 1)} :
         /\ postulantes' = [postulantes EXCEPT ![<<req.tenant_id, req.phone>>] = done.candidate]
         /\ calendar' = calendar + done.events
         /\ last' = [ op |-> "chat", status |-> 200, phone |-> req.phone,
                      message |-> req.message,
                      currentState |-> Some(req.conversation.estado),
                      response |-> AiResponse, state |-> next.newState,
                      actions |-> next.actions ]
    /\ inflight' = [inflight EXCEPT ![s] = Idle]
    /\ written' = [written EXCEPT
                      !.turns = @ + 1,
                      !.scheduled = @ + Emitted(NextStateOf(inflight[s], today).actions,
                                                "schedule_interview")]
    /\ UNCHANGED <<conversaciones, originToTenantCache, today, faults>>

NextRace ==
    \E s \in Slots :
       \/ \E p \in Phones, m \in RaceMessages : ReceiveChat(s, p, m, DefaultOrigin)
       \/ ConversationGet(s)
       \/ ConversationSet(s)
       \/ UserMessageGet(s)
       \/ UserMessageUpdate(s)
       \/ CandidateDataGet(s)
       \/ CandidateDataUpdate(s)
       \/ StateUpdate(s)
       \/ ReplyGet(s)
       \/ ReplyUpdate(s)
       \/ Respond(s)

SpecRace == Init /\ [][NextRace]_vars

\* ------------------------------------------------------------------------
\* GET /api/conversations/:phone behind authMiddleware and tenantMiddleware
\* ------------------------------------------------------------------------
\* a tenant whose document has activo: false, and a tenant id of a token
\* whose tenant document does not exist; neither has a WhatsApp line
InactiveTenant == "cerrado"

DeletedTenant == "borrado"

\* collections.tenantConfig(tenant_id).get()
tenantConfig(tenant_id) ==
    IF tenant_id \in Tenants THEN [exists |-> TRUE, activo |-> TRUE]
    ELSE IF tenant_id = InactiveTenant THEN [exists |-> TRUE, activo |-> FALSE]
    ELSE [exists |-> FALSE, activo |-> FALSE]

\* the tokens that requests carry: one of a user of each tenant, one whose
\* user has no tenant_id claim, one that is expired
Tokens == {"t-ngr", "t-acme", "t-cerrado", "t-borrado", "t-sin-claim", "t-vencido"}

\* AuthService.verifyToken: the decoded token, or None when verifyIdToken throws
verifyToken(token) ==
    CASE token = "t-ngr" -> Some([tenant_id |-> Some("ngr")])
      [] token = "t-acme" -> Some([tenant_id |-> Some("acme")])
      [] token = "t-cerrado" -> Some([tenant_id |-> Some(InactiveTenant)])
      [] token = "t-borrado" -> Some([tenant_id |-> Some(DeletedTenant)])
      [] token = "t-sin-claim" -> Some([tenant_id |-> None])
      [] OTHER -> None

\* The Authorization headers of the requests: none, one of another scheme,
\* and Bearer followed by a token.  A header is the pair of its scheme and of
\* what follows the scheme.
Authorizations ==
    {None, Some([scheme |-> "Basic", rest |-> "dXNlcjpwYXNz"])}
    \cup {Some([scheme |-> "Bearer", rest |-> t]) : t \in Tokens}

\* authMiddleware: status 0 stands for next()
authMiddleware(authorization) ==
    IF ~Present(authorization) \/ Val(authorization).scheme # "Bearer"
    THEN [status |-> 401, user |-> None]
    ELSE IF ~Present(verifyToken(Val(authorization).rest))
    THEN [status |-> 401, user |-> None]
    ELSE [status |-> 0, user |-> verifyToken(Val(authorization).rest)]

\* tenantMiddleware: the route has no tenant_id parameter and the request no
\* body, so that the requested tenant is that of the query string
tenantMiddleware(user, queryTenant) ==
    IF ~Present(user) \/ ~Given(Val(user).tenant_id) THEN 401
    ELSE IF Given(queryTenant) /\ queryTenant # Val(user).tenant_id THEN 403
    ELSE IF ~tenantConfig(Val(Val(user).tenant_id)).exists THEN 404
    ELSE IF ~tenantConfig(Val(Val(user).tenant_id)).activo THEN 403
    ELSE 0

\* a variant of the handler that answers with every conversation found
conversationHandler_noTenantCheck(doc, tenant_id) ==
    IF ~doc.exists THEN [status |-> 404, conversation |-> None]
    ELSE [status |-> 200, conversation |-> Some(doc)]

\* the handler of the route
conversationHandler(doc, tenant_id) ==
    IF ~doc.exists THEN [status |-> 404, conversation |-> None]
    ELSE IF doc.tenant_id # Some(tenant_id) THEN [status |-> 403, conversation |-> None]
    ELSE [status |-> 200, conversation |-> Some(doc)]

\* the response to a request: its status and the conversation it carries
getConversation(docs, req) ==
    LET authed == authMiddleware(req.authorization)
        allowed == tenantMiddleware(authed.user, req.queryTenant)
    IN  IF authed.status # 0 THEN [status |-> authed.status, conversation |-> None]
        ELSE IF allowed # 0 THEN [status |-> allowed, conversation |-> None]
        ELSE conversationHandler(IF req.phone \in DOMAIN docs THEN docs[req.phone]
                                 ELSE NoConversation,
                                 Val(Val(authed.user).tenant_id))

ConversationRequests ==
    [ phone : Phones, authorization : Authorizations,
      queryTenant : {None, Some("acme")} ]

\* GET /api/conversations/:phone
GetConversation(req) ==
    /\ last' = [ op |-> "getConversation", req |-> req,
                 res |-> getConversation(conversaciones, req) ]
    /\ UNCHANGED <<conversaciones, postulantes, originToTenantCache, calendar, today,
                   faults, inflight, written>>

NextConversations ==
    \/ ChatAnyOrigin
    \/ \E req \in ConversationRequests : GetConversation(req)

SpecConversations == Init /\ [][NextConversations]_vars

\* ------------------------------------------------------------------------
\* A candidate who answers every question of the conversation, as the
\* scripts testInterview and testScreening do
\* ------------------------------------------------------------------------
\* the basic data not yet stored, each with the answer that supplies it;
\* age is the answer that supplies the age
BasicDataAnswers(candidateData, age) ==
    (IF TruthyStr(candidateData.nombre) THEN {} ELSE {MsgNombre, MsgMaria})
    \cup (IF TruthyNum(candidateData.edad) THEN {} ELSE {age})
    \cup (IF TruthyStr(candidateData.dni) THEN {} ELSE {MsgDni})
    \cup (IF TruthyStr(candidateData.email) THEN {} ELSE {MsgEmail})

\* the ways in which the candidate says yes
YesAnswers == {MsgSi, MsgClaro}

\* the salaries the candidate may ask for, and the choices in a list
SalaryAnswers == {MsgSalario1440, MsgSalario1200}

ChoiceAnswers == {MsgUno, MsgDos}

\* the answers of the candidate to the question of a state
Answers(doc, age) ==
    CASE doc.estado = INICIO -> {MsgHola}
      [] doc.estado = TERMS -> YesAnswers
      [] doc.estado = DATOS_BASICOS -> BasicDataAnswers(doc.candidateData, age)
      [] doc.estado = HARD_FILTERS -> YesAnswers
      [] doc.estado = SALARY_EXPECTATION -> SalaryAnswers
      [] doc.estado = LOCATION_INPUT -> {MsgMiraflores}
      [] doc.estado = TIENDAS -> ChoiceAnswers
      [] doc.estado = SELECCION_VACANTE -> ChoiceAnswers
      [] doc.estado = SCREENING -> YesAnswers
      [] doc.estado = ENTREVISTA -> ChoiceAnswers
      [] OTHER -> {}

\* the candidate answers the question of the current state, and supplies the
\* age as a number of years, as the scripts do
CandidateAnswers ==
    \E p \in Phones : \E m \in Answers(conversaciones[p], MsgEdad) :
        Chat(p, m, DefaultOrigin, "none")

\* the candidate supplies the age as a birth date
CandidateSendsBirthDate ==
    \E p \in Phones :
        /\ conversaciones[p].estado = DATOS_BASICOS
        /\ Chat(p, MsgFechaAdulto, DefaultOrigin, "none")

NextCandidate == CandidateAnswers \/ CandidateSendsBirthDate

\* the candidate goes on answering as long as there is a question
SpecCandidate == Init /\ [][NextCandidate]_vars /\ WF_vars(CandidateAnswers)

\* ------------------------------------------------------------------------
\* Calls of the CandidateValidator functions
\* ------------------------------------------------------------------------
\* the characters and the largest length of the texts given as DNI
DniChars == {"4", "-"}

MaxDniLen == 9

DniInputs ==
    {None, Some(MsgDni), Some(<<"8", "7", "6", "5", "4", "3", "2", "a">>)}
    \cup {Some(s) : s \in UNION {[1..n -> DniChars] : n \in 0..MaxDniLen}}

\* the day after a date
NextDay(date) ==
    IF date[3] < DaysInMonth(date[1], date[2]) THEN <<date[1], date[2], date[3] + 1>>
    ELSE IF date[2] < 12 THEN <<date[1], date[2] + 1, 1>>
    ELSE <<date[1] + 1, 1, 1>>

\* birth dates around the limits: the birthdays number 18, 60 and 61 fall on
\* the day before now, on now and on the day after now
BirthDates(now) ==
    {<<1995, 3, 15>>}
    \cup UNION { { <<now[1] - a, now[2], now[3]>>,
                   NextDay(<<now[1] - a, now[2], now[3]>>),
                   PreviousDay(<<now[1] - a, now[2], now[3]>>) } : a \in {18, 60, 61} }

\* a birth date as the argument of validateAge: a Date, or a text
BirthDateInputs(date) ==
    { [form |-> "Date", date |-> date],
      [form |-> "text", text |-> IsoText(date)],
      [form |-> "text", text |-> SlashText(date)] }

ShiftInputs ==
    { None, Some(<<>>), Some(Rotativos), Some(Cierres), Some(Mixto),
      Some(<<"M", "i", "x", "t", "o", " ">>), Some(<<"n", "o", "c", "h", "e">>) }

PhoneInputs ==
    { None, Some(<<"9", "9", "9", "9", "9", "5", "5", "6", "1">>),
      Some(<<"9", "9", "9", " ", "9", "9", "5", " ", "5", "6", "1">>),
      Some(<<"8", "9", "9", "9", "9", "5", "5", "6", "1">>),
      Some(<<"1", "2", "3", "4", "5">>) }

NameInputs ==
    { None, Some(MsgNombre), Some(<<"J", "u", "a", "n">>), Some(<<"J", "o">>),
      Some(<<"J", "u", "a", "n", " ", "P", "3", "r", "e", "z">>),
      Some(<<" ", "M", "a", "r", "i'", "a", " ", " ", "N", "u", "n~", "e", "z", " ">>) }

\* the candidateData given to validateCandidate
CandidateInputs(now) ==
    [ nombre : {None, Some(MsgNombre), Some(<<"J", "u", "a", "n">>)},
      dni : {None, Some(MsgDni), Some(<<"1", "2", "3">>)},
      telefono : {None, Some(<<"9", "9", "9", "9", "9", "5", "5", "6", "1">>),
                  Some(<<"1", "2", "3", "4", "5">>)},
      fechaNacimiento : {None, Some([form |-> "Date", date |-> <<1995, 3, 15>>]),
                         Some([form |-> "Date", date |-> <<now[1] - 17, 1, 1>>])},
      distrito : {None, Some(<<" ", "A", "t", "e">>)},
      disponibilidad : {None, Some(<<"M", "i", "x", "t", "o">>)} ]

\* the calls that are pending when a run starts
ValidatorCalls(now) ==
    {[op |-> "dniRequest", dni |-> d] : d \in DniInputs}
    \cup {[op |-> "ageRequest", born |-> None, birthDate |-> None, zone |-> z] :
             z \in TimeZones}
    \cup {[op |-> "ageRequest", born |-> None, zone |-> z,
           birthDate |-> Some([form |-> "text", text |-> MsgHola])] : z \in TimeZones}
    \cup UNION {{[op |-> "ageRequest", born |-> Some(d), birthDate |-> Some(b), zone |-> z] :
                    b \in BirthDateInputs(d), z \in TimeZones} : d \in BirthDates(now)}
    \cup {[op |-> "shiftRequest", availability |-> a, requiredShift |-> r] :
             a \in ShiftInputs, r \in {None, Some(Rotativos), Some(Cierres), Some(Mixto)}}
    \cup {[op |-> "phoneRequest", phone |-> p] : p \in PhoneInputs}
    \cup {[op |-> "nameRequest", name |-> n] : n \in NameInputs}
    \cup {[op |-> "candidateRequest", candidateData |-> Some(c), zone |-> z] :
             c \in CandidateInputs(now), z \in TimeZones}
    \cup {[op |-> "candidateRequest", candidateData |-> None, zone |-> "UTC"]}

InitValidators ==
    /\ conversaciones = [p \in Phones |-> NoConversation]
    /\ postulantes = [k \in Tenants \X Phones |-> NoCandidate]
    /\ originToTenantCache = [o \in AllOrigins |-> None]
    /\ calendar = 0
    /\ today \in Dates
    /\ faults = 0
    /\ inflight = [s \in Slots |-> Idle]
    /\ written = NothingWritten
    /\ last \in ValidatorCalls(today)

\* the pending call is answered with res
Answer(call, res) ==
    /\ last' = [call |-> call, res |-> res, op |-> "validated"]
    /\ UNCHANGED <<conversaciones, postulantes, originToTenantCache, calendar, today,
                   faults, inflight, written>>

ValidateDNI ==
    /\ last.op = "dniRequest"
    /\ Answer(last, validateDNI(last.dni))

ValidateAge ==
    /\ last.op = "ageRequest"
    /\ Answer(last, validateAge(last.birthDate, today, last.zone))

ValidateShiftAvailability ==
    /\ last.op = "shiftRequest"
    /\ Answer(last, validateShiftAvailabilityResult(last.availability, last.requiredShift))

ValidatePhone ==
    /\ last.op = "phoneRequest"
    /\ Answer(last, validatePhone(last.phone))

ValidateName ==
    /\ last.op = "nameRequest"
    /\ Answer(last, validateName(last.name))

ValidateCandidate ==
    /\ last.op = "candidateRequest"
    /\ Answer(last, validateCandidate(last.candidateData, "ngr", today, last.zone))

NextValidators ==
    \/ ValidateDNI
    \/ ValidateAge
    \/ ValidateShiftAvailability
    \/ ValidatePhone
    \/ ValidateName
    \/ ValidateCandidate

SpecValidators == InitValidators /\ [][NextValidators]_vars

\* ------------------------------------------------------------------------
\* GeminiChatbot.generateResponse, one step for each call of the model and
\* for each wait before a retry
\* ------------------------------------------------------------------------
MAX_RETRIES == 5

BASE_DELAY == 60000

\* what this.model.generateContent throws: status is error.status or
\* error.response.status, message is error.message
ApiError(status, message) == [status |-> status, message |-> message]

ErrTooManyRequests == ApiError(Some(429), Some(<<"T", "o", "o", " ", "M", "a", "n", "y", " ", "R", "e", "q", "u", "e", "s", "t", "s">>))

ErrExhausted == ApiError(Some(429), Some(<<"R", "E", "S", "O", "U", "R", "C", "E", "_", "E", "X", "H", "A", "U", "S", "T", "E", "D", " ", "r", "e", "t", "r", "y", "D", "e", "l", "a", "y", ":", " ", "\"", "5", "9", "s", "\"">>))

ErrQuota == ApiError(None, Some(<<"q", "u", "o", "t", "a", " ", "e", "x", "c", "e", "e", "d", "e", "d">>))

ErrQuotaLongDelay == ApiError(None, Some(<<"q", "u", "o", "t", "a", " ", "e", "x", "c", "e", "e", "d", "e", "d", ",", " ", "r", "e", "t", "r", "y", "D", "e", "l", "a", "y", " ", "1", "2", "0", "s">>))

ErrGenerate == ApiError(Some(500), Some(<<"F", "a", "i", "l", "e", "d", " ", "t", "o", " ", "g", "e", "n", "e", "r", "a", "t", "e", " ", "c", "o", "n", "t", "e", "n", "t">>))

ErrInternal == ApiError(Some(500), Some(<<"I", "n", "t", "e", "r", "n", "a", "l", " ", "e", "r", "r", "o", "r">>))

ErrNoMessage == ApiError(None, None)

ApiErrors ==
    { ErrTooManyRequests, ErrExhausted, ErrQuota, ErrQuotaLongDelay, ErrGenerate,
      ErrInternal, ErrNoMessage }

\* const errorMessage = error.message || ''
ErrorMessageOf(error) == IF Present(error.message) THEN Val(error.message) ELSE <<>>

isRateLimit(error) ==
    \/ error.status = Some(429)
    \/ Includes(ErrorMessageOf(error), <<"R", "E", "S", "O", "U", "R", "C", "E", "_", "E", "X", "H", "A", "U", "S", "T", "E", "D">>)
    \/ Includes(ErrorMessageOf(error), <<"q", "u", "o", "t", "a">>)
    \/ Includes(ErrorMessageOf(error), <<"r", "a", "t", "e">>)

\* the first position from i on that holds no character of chars
SkipChars(s, i, chars) ==
    CHOOSE j \in i..(Len(s) + 1) :
        /\ \A k \in i..(j - 1) : s[k] \in chars
        /\ j = Len(s) + 1 \/ s[j] \notin chars

\* errorMessage.match(/retryDelay[:\s]*"?(\d+)s?"?/i): the digits captured by
\* the leftmost match, or None
RetryDelayMatch(errorMessage) ==
    LET lower == ToLowerCase(errorMessage)
        word == <<"r", "e", "t", "r", "y", "d", "e", "l", "a", "y">>
        digitsFrom(i) ==
            LET afterSeps == SkipChars(errorMessage, i + Len(word), {":", " "})
                afterQuote == IF afterSeps <= Len(errorMessage) /\ errorMessage[afterSeps] = "\""
                              THEN afterSeps + 1 ELSE afterSeps
            IN  SubSeq(errorMessage, afterQuote,
                       SkipChars(errorMessage, afterQuote, Range(DigitChars)) - 1)
        starts == {i \in 1..(Len(lower) - Len(word) + 1) :
                      /\ SubSeq(lower, i, i + Len(word) - 1) = word
                      /\ digitsFrom(i) # <<>>}
    IN  IF starts = {} THEN None
        ELSE Some(digitsFrom(CHOOSE i \in starts : \A k \in starts : i <= k))

\* the wait before the retry, in milliseconds
RetryDelay(error, retryCount) ==
    LET delayMatch == RetryDelayMatch(ErrorMessageOf(error))
    IN  IF Present(delayMatch) THEN ParseInt(Val(delayMatch)) * 1000
        ELSE BASE_DELAY * 2^retryCount

\* a call of generateResponse(systemPrompt, history, userMessage): calls
\* counts the calls of this.model.generateContent, waits holds the waits so
\* far, errors the failures of the model so far
GenerateCall(useMock) ==
    [ pc |-> "generate", useMock |-> useMock, retryCount |-> 0, calls |-> 0,
      waits |-> <<>>, errors |-> <<>>, outcome |-> "pending" ]

Generating(s) == inflight[s].pc \in {"generate", "generate_wait", "generate_done"}

UnchangedByGenerate ==
    UNCHANGED <<conversaciones, postulantes, originToTenantCache, calendar, today,
                faults, written, last>>

\* processMessage calls generateResponse; one call runs at a time
CallGenerate(s, useMock) ==
    /\ \A t \in Slots : inflight[t] = Idle
    /\ inflight' = [inflight EXCEPT ![s] = GenerateCall(useMock)]
    /\ UnchangedByGenerate

\* if (this.useMock) return this.getMockResponse(systemPrompt, userMessage)
MockReturns(s) ==
    /\ inflight[s].pc = "generate"
    /\ inflight[s].useMock
    /\ inflight' = [inflight EXCEPT ![s].pc = "generate_done", ![s].outcome = "returned"]
    /\ UnchangedByGenerate

\* this.model.generateContent(fullPrompt) resolves
ModelReturns(s) ==
    /\ inflight[s].pc = "generate"
    /\ ~inflight[s].useMock
    /\ inflight' = [inflight EXCEPT ![s].pc = "generate_done", ![s].outcome = "returned",
                                    ![s].calls = @ + 1]
    /\ UnchangedByGenerate

\* this.model.generateContent(fullPrompt) rejects and the catch block runs
ModelThrows(s, error) ==
    /\ inflight[s].pc = "generate"
    /\ ~inflight[s].useMock
    /\ inflight' =
          IF isRateLimit(error) /\ inflight[s].retryCount < MAX_RETRIES
          THEN [inflight EXCEPT ![s].pc = "generate_wait", ![s].calls = @ + 1,
                                ![s].errors = Append(@, error),
                                ![s].waits = Append(@, RetryDelay(error, inflight[s].retryCount))]
          ELSE [inflight EXCEPT ![s].pc = "generate_done", ![s].outcome = "thrown",
                                ![s].calls = @ + 1, ![s].errors = Append(@, error)]
    /\ UnchangedByGenerate

\* the timer fires: return this.generateResponse(..., retryCount + 1)
RetryGenerate(s) ==
    /\ inflight[s].pc = "generate_wait"
    /\ inflight' = [inflight EXCEPT ![s].pc = "generate", ![s].retryCount = @ + 1]
    /\ UnchangedByGenerate

\* the caller has taken the reply or the failure
GenerateReturned(s) ==
    /\ inflight[s].pc = "generate_done"
    /\ inflight' = [inflight EXCEPT ![s] = Idle]
    /\ UnchangedByGenerate

NextGenerate ==
    \E s \in Slots :
        \/ \E useMock \in BOOLEAN : CallGenerate(s, useMock)
        \/ MockReturns(s)
        \/ ModelReturns(s)
        \/ \E error \in ApiErrors : ModelThrows(s, error)
        \/ RetryGenerate(s)
        \/ GenerateReturned(s)

SpecGenerate == Init /\ [][NextGenerate]_vars

\* the model answers or fails, the timer fires and the caller resumes
SpecGenerateFair ==
    /\ SpecGenerate
    /\ \A s \in Slots :
          /\ WF_vars(MockReturns(s) \/ ModelReturns(s) \/ \E error \in ApiErrors : ModelThrows(s, error))
          /\ WF_vars(RetryGenerate(s))

\* ------------------------------------------------------------------------
\* Scheduler.generateTimeSlots and CalendarService.filterAvailableSlots.  A
\* Date is a day <<year, month, day>> and an hour of the local time; the
\* minutes, seconds and milliseconds of every Date compared are zero.
\* ------------------------------------------------------------------------
\* the number of the day, counted from 1 January of the year 1
Ordinal(date) ==
    LET y == date[1] - 1
        monthDays == [m \in 1..12 |-> DaysInMonth(date[1], m)]
        before[m \in 1..12] == IF m = 1 THEN 0 ELSE before[m - 1] + monthDays[m - 1]
    IN  365 * y + (y \div 4) - (y \div 100) + (y \div 400) + before[date[2]] + date[3]

\* Date.prototype.getDay: 0 is Sunday
getDay(date) == Ordinal(date) % 7

\* Date.prototype.getTime, in hours of the local time
HoursOf(dateTime) == 24 * Ordinal(dateTime.date) + dateTime.hour

\* the hours that the local time is behind UTC
HoursBehindUtc(zone) == IF zone = "America/Lima" THEN 5 ELSE 0

\* Date.prototype.toISOString: the text names the time in UTC
ToISOString(hours, zone) == hours + HoursBehindUtc(zone)

\* new Date(text) of a text written by toISOString
ParseISOString(text, zone) == text - HoursBehindUtc(zone)

\* currentDate.setDate(start.getDate() + day)
RECURSIVE AddDays(_, _)
AddDays(date, day) == IF day = 0 THEN date ELSE AddDays(NextDay(date), day - 1)

\* CalendarService.listEvents of the mock calendar: busy tomorrow from 10 to 11
listEvents(now, zone) ==
    << [ start |-> ToISOString(HoursOf([date |-> NextDay(now), hour |-> 10]), zone),
         end   |-> ToISOString(HoursOf([date |-> NextDay(now), hour |-> 11]), zone) ] >>

hasCollision(slot, busyEvents, zone) ==
    LET slotStart == HoursOf(slot)
        slotEnd == HoursOf([slot EXCEPT !.hour = @ + 1])
    IN  \E i \in DOMAIN busyEvents :
            /\ slotStart < ParseISOString(busyEvents[i].end, zone)
            /\ slotEnd > ParseISOString(busyEvents[i].start, zone)

filterAvailableSlots_unfiltered(potentialSlots, now, zone) == potentialSlots

filterAvailableSlots(potentialSlots, now, zone) ==
    LET busyEvents == listEvents(now, zone)
        free(slot) == ~hasCollision(slot, busyEvents, zone)
    IN  SelectSeq(potentialSlots, free)

interviewHours == <<9, 10, 11, 14, 15, 16, 17>>

\* the slots pushed for the days day..daysAhead after start
RECURSIVE PotentialSlots(_, _, _)
PotentialSlots(start, day, daysAhead) ==
    IF day > daysAhead THEN <<>>
    ELSE LET currentDate == AddDays(start, day)
             pushed == IF getDay(currentDate) = 0 THEN <<>>
                       ELSE [i \in DOMAIN interviewHours |->
                                [date |-> currentDate, hour |-> interviewHours[i]]]
         IN  pushed \o PotentialSlots(start, day + 1, daysAhead)

\* start.setHours(0, 0, 0, 0) leaves the day of startDate
generateTimeSlots(startDate, daysAhead, now, zone) ==
    filterAvailableSlots(PotentialSlots(startDate.date, 1, daysAhead), now, zone)

\* the largest daysAhead of a call
MaxDaysAhead == 8

\* start dates: around now, before a Sunday, on a Sunday, at the end of a
\* month, of a year and of a February
StartDates(now) ==
    { PreviousDay(now), now, NextDay(now), <<2026, 11, 7>>, <<2026, 11, 8>>,
      <<2026, 11, 28>>, <<2026, 12, 30>>, <<2028, 2, 27>> }

SlotCalls(now) ==
    [ op : {"slotsRequest"},
      startDate : [date : StartDates(now), hour : {0, 15}],
      daysAhead : 0..MaxDaysAhead,
      zone : TimeZones ]

\* a call of generateTimeSlots is pending
InitSlots ==
    /\ conversaciones = [p \in Phones |-> NoConversation]
    /\ postulantes = [k \in Tenants \X Phones |-> NoCandidate]
    /\ originToTenantCache = [o \in AllOrigins |-> None]
    /\ calendar = 0
    /\ today \in Dates
    /\ faults = 0
    /\ inflight = [s \in Slots |-> Idle]
    /\ written = NothingWritten
    /\ last \in SlotCalls(today)

GenerateTimeSlots ==
    /\ last.op = "slotsRequest"
    /\ Answer(last, generateTimeSlots(last.startDate, last.daysAhead, today, last.zone))

NextSlots == GenerateTimeSlots

SpecSlots == InitSlots /\ [][NextSlots]_vars

\* ------------------------------------------------------------------------
\* A candidate who answers each question of the flow, in more ways than the
\* scripts do
\* ------------------------------------------------------------------------
\* the replies of the candidate to the question of a state; the basic data
\* are asked for one after the other
Replies(doc) ==
    CASE doc.estado = INICIO -> {MsgHola}
      [] doc.estado = TERMS -> {MsgSi}
      [] doc.estado = DATOS_BASICOS ->
            IF ~TruthyStr(doc.candidateData.nombre) THEN {MsgNombre}
            ELSE IF ~TruthyStr(doc.candidateData.fechaNacimiento)
            THEN {MsgFechaAdulto, MsgFechaMayor}
            ELSE IF ~TruthyStr(doc.candidateData.dni) THEN {MsgDni, MsgCarnet}
            ELSE {MsgEmail}
      [] doc.estado = HARD_FILTERS -> {MsgSi, MsgNo, MsgNoPuedo, MsgNoGracias}
      [] doc.estado = SALARY_EXPECTATION -> {MsgSalario1440}
      [] doc.estado = LOCATION_INPUT -> {MsgMiraflores, MsgXyz}
      [] doc.estado = TIENDAS -> {MsgUno, MsgNueve}
      [] doc.estado = SELECCION_VACANTE -> {MsgUno}
      [] doc.estado = SCREENING -> {MsgSi}
      [] doc.estado = ENTREVISTA -> {MsgUno}
      [] doc.estado = CONFIRMADO -> {MsgSi}
      [] OTHER -> {}

CandidateReplies ==
    \E p \in Phones : \E m \in Replies(conversaciones[p]) : Chat(p, m, DefaultOrigin, "none")

NextReplies == CandidateReplies

SpecReplies == Init /\ [][NextReplies]_vars

\* ------------------------------------------------------------------------
\* Two answers to the question of the interview slot.  The candidate goes
\* through the flow one message at a time; the messages sent while the
\* conversation asks for the interview slot are processed step by step, so
\* that the steps of two of them interleave.  The conversation exists by
\* then, and getOrCreateConversation writes nothing.
\* ------------------------------------------------------------------------
\* a message of the flow, answered before the next one is sent
ReplyInTurn ==
    /\ \A s \in Slots : inflight[s] = Idle
    /\ \E p \in Phones :
         /\ conversaciones[p].estado # ENTREVISTA
         /\ \E m \in Replies(conversaciones[p]) : Chat(p, m, DefaultOrigin, "none")

\* a message sent while the conversation asks for the interview slot
ReceiveSlotChoice(s) ==
    \E p \in Phones :
        /\ conversaciones[p].exists
        /\ conversaciones[p].estado = ENTREVISTA
        /\ \E m \in Replies(conversaciones[p]) : ReceiveChat(s, p, m, DefaultOrigin)

NextSlotChoice ==
    \/ ReplyInTurn
    \/ \E s \in Slots :
          \/ ReceiveSlotChoice(s)
          \/ ConversationGet(s)
          \/ UserMessageGet(s)
          \/ UserMessageUpdate(s)
          \/ StateUpdate(s)
          \/ ReplyGet(s)
          \/ ReplyUpdate(s)
          \/ Respond(s)

SpecSlotChoice == Init /\ [][NextSlotChoice]_vars

\* ------------------------------------------------------------------------
\* The confirmation reminders: Scheduler.getCandidatesForTomorrowReminder,
\* sendConfirmationReminder and processConfirmationReminders.  The time of an
\* interview (entrevista.fechaHora) is counted in hours, as by HoursOf.
\* ------------------------------------------------------------------------
\* tomorrow.setDate(tomorrow.getDate() + 1); tomorrow.setHours(0, 0, 0, 0)
TomorrowStart(now) == HoursOf([date |-> NextDay(now), hour |-> 0])

\* dayAfterTomorrow.setDate(dayAfterTomorrow.getDate() + 1)
DayAfterTomorrowStart(now) == HoursOf([date |-> NextDay(NextDay(now)), hour |-> 0])

\* .where('estado', 'in', [...])
ReminderStates == {Some("entrevista_programada"), Some("entrevista_confirmada")}

\* the documents of the tenants collection and of a postulantes collection,
\* in the order of a snapshot
TenantDocs == <<"acme", "ngr">>

CandidateDocs == CHOOSE s \in [1..Cardinality(Phones) -> Phones] : Range(s) = Phones

\* a variant of IsForTomorrow without the upper limit
IsForTomorrow_noUpperLimit(candidate, now) ==
    /\ candidate.exists
    /\ candidate.estado \in ReminderStates
    /\ \E entrevista \in candidate.entrevista : \E interviewDate \in entrevista.fechaHora :
          interviewDate >= TomorrowStart(now)

\* the query and the test of the interview date
IsForTomorrow(candidate, now) ==
    /\ candidate.exists
    /\ candidate.estado \in ReminderStates
    /\ \E entrevista \in candidate.entrevista : \E interviewDate \in entrevista.fechaHora :
          /\ interviewDate >= TomorrowStart(now)
          /\ interviewDate < DayAfterTomorrowStart(now)

\* snapshot.docs.forEach over the candidates of one tenant
TenantReminders(records, tenant_id, now) ==
    LET pushed(id) ==
            IF <<tenant_id, id>> \in DOMAIN records /\ IsForTomorrow(records[<<tenant_id, id>>], now)
            THEN <<[id |-> id, tenant_id |-> tenant_id, data |-> records[<<tenant_id, id>>]]>>
            ELSE <<>>
        from[i \in 1..(Len(CandidateDocs) + 1)] ==
            IF i > Len(CandidateDocs) THEN <<>> ELSE pushed(CandidateDocs[i]) \o from[i + 1]
    IN  from[1]

\* getCandidatesForTomorrowReminder(tenant_id): tenant_id is None when the
\* caller passes none
getCandidatesForTomorrowReminder(records, tenant_id, now) ==
    IF Present(tenant_id) THEN TenantReminders(records, Val(tenant_id), now)
    ELSE LET from[i \in 1..(Len(TenantDocs) + 1)] ==
                 IF i > Len(TenantDocs) THEN <<>>
                 ELSE TenantReminders(records, TenantDocs[i], now) \o from[i + 1]
         IN  from[1]

\* sendConfirmationReminder(candidate): the telefono of a record is the id it
\* is stored under; update() of a missing conversation fails, and failed
\* tells that the database fails in this call
sendConfirmationReminder(docs, candidate, failed) ==
    IF failed \/ ~docs[candidate.id].exists
    THEN [docs |-> docs, result |-> [success |-> FALSE, telefono |-> candidate.id]]
    ELSE [ docs |-> [docs EXCEPT ![candidate.id] = updateState(@, CONFIRMACION_PENDIENTE)],
           result |-> [success |-> TRUE, telefono |-> candidate.id] ]

\* a variant of the loop that ends at the first reminder that fails
RECURSIVE SendReminders_abort(_, _, _, _)
SendReminders_abort(docs, results, candidates, failing) ==
    IF candidates = <<>> \/ (\E i \in DOMAIN results : ~results[i].success)
    THEN [docs |-> docs, results |-> results]
    ELSE LET sent == sendConfirmationReminder(docs, Head(candidates),
                                              <<Head(candidates).tenant_id, Head(candidates).id>> \in failing)
         IN  SendReminders_abort(sent.docs, Append(results, sent.result), Tail(candidates), failing)

\* for (const candidate of candidates): failing holds the candidates for
\* which the database fails
RECURSIVE SendReminders(_, _, _, _)
SendReminders(docs, results, candidates, failing) ==
    IF candidates = <<>> THEN [docs |-> docs, results |-> results]
    ELSE LET sent == sendConfirmationReminder(docs, Head(candidates),
                                              <<Head(candidates).tenant_id, Head(candidates).id>> \in failing)
         IN  SendReminders(sent.docs, Append(results, sent.result), Tail(candidates), failing)

\* processConfirmationReminders(): queryFails tells that the query of the
\* candidates throws; the catch block logs whatever is thrown
processConfirmationReminders(docs, records, now, queryFails, failing) ==
    IF queryFails
    THEN [docs |-> docs, candidates |-> <<>>, results |-> <<>>, thrown |-> FALSE]
    ELSE LET candidates == getCandidatesForTomorrowReminder(records, None, now)
             sent == SendReminders(docs, <<>>, candidates, failing)
         IN  [docs |-> sent.docs, candidates |-> candidates, results |-> sent.results,
              thrown |-> FALSE]

\* the times of the interviews scheduled: the last hour of today, the first,
\* the eleventh and the last hour of tomorrow, the first hour of the day after
InterviewTimes(now) ==
    { HoursOf([date |-> now, hour |-> 23]),
      TomorrowStart(now), TomorrowStart(now) + 10, TomorrowStart(now) + 23,
      DayAfterTomorrowStart(now) }

InterviewAt(time) ==
    [ tiendaId |-> Some("T1"), vacanteId |-> Some("V1"), fechaHora |-> Some(time),
      direccion |-> Some("Av. Test 123") ]

\* the messages of the conversations that the reminders meet
ReminderMessages == {MsgNo}

ChatBeforeReminder ==
    \E p \in Phones, m \in ReminderMessages : Chat(p, m, DefaultOrigin, "none")

\* a caller asks for the candidates to remind
GetCandidatesForTomorrowReminder(tenant_id) ==
    /\ last' = [ op |-> "tomorrowReminders", tenant_id |-> tenant_id,
                 candidates |-> getCandidatesForTomorrowReminder(postulantes, tenant_id, today) ]
    /\ UNCHANGED <<conversaciones, postulantes, originToTenantCache, calendar, today,
                   faults, inflight, written>>

\* the cron job runs
ProcessConfirmationReminders(queryFails, failing) ==
    /\ (queryFails \/ failing # {}) => faults < MaxFaults
    /\ \E job \in {processConfirmationReminders(conversaciones, postulantes, today,
                                                 queryFails, failing)} :
          /\ conversaciones' = job.docs
          /\ last' = [ op |-> "reminders", candidates |-> job.candidates,
                       results |-> job.results, thrown |-> job.thrown,
                       failing |-> failing, before |-> conversaciones ]
    /\ faults' = IF queryFails \/ failing # {} THEN faults + 1 ELSE faults
    /\ UNCHANGED <<postulantes, originToTenantCache, calendar, today, inflight, written>>

NextReminders ==
    \/ ChatBeforeReminder
    \/ \E k \in DOMAIN postulantes : CreateCandidate(k, None)
    \/ \E k \in DOMAIN postulantes, t \in InterviewTimes(today) :
          /\ ~Present(postulantes[k].entrevista)
          /\ ScheduleInterview(k, InterviewAt(t))
    \/ \E k \in DOMAIN postulantes : ConfirmInterview(k)
    \/ \E tenant_id \in {None} \cup {Some(t) : t \in Tenants} :
          GetCandidatesForTomorrowReminder(tenant_id)
    \/ \E queryFails \in BOOLEAN, failing \in SUBSET DOMAIN postulantes :
          ProcessConfirmationReminders(queryFails, failing)

SpecReminders == Init /\ [][NextReminders]_vars

\* ------------------------------------------------------------------------
\* Properties
\* ------------------------------------------------------------------------
\* the last request was a chat turn that processMessage completed
Completed == last.op = "chat" /\ last.status = 200 /\ ~last.thrown

\* the last request was a chat turn in which a step of processMessage threw
Caught == last.op = "chat" /\ last.status = 200 /\ last.thrown

\* the completed last turn was processed from state s
TurnFrom(s) == Completed /\ last.currentState = Some(s)

\* the conversation document of the last request
LastDoc == conversaciones[last.phone]

\* the rejected actions among a list of actions
RejectedActions(actions) == SelectSeq(actions, LAMBDA a : a.type = "rejected")

StateChain ==
    << INICIO, TERMS, DATOS_BASICOS, HARD_FILTERS, SALARY_EXPECTATION, LOCATION_INPUT,
       TIENDAS, SELECCION_VACANTE, SCREENING, ENTREVISTA, CONFIRMADO, COMPLETADO >>

\* b is the state that follows a in the chain
NextInChain(a, b) ==
    \E i \in 1..(Len(StateChain) - 1) : StateChain[i] = a /\ StateChain[i + 1] = b

RejectingStates == {TERMS, DATOS_BASICOS, HARD_FILTERS, SALARY_EXPECTATION}

RejectReason(s) ==
    CASE s = TERMS -> "terms_declined"
      [] s = DATOS_BASICOS -> "underage"
      [] s = HARD_FILTERS -> "availability_filter"
      [] s = SALARY_EXPECTATION -> "salary_expectation_high"

\* C2: a turn moves a conversation into REJECTED only from TERMS, BASIC_DATA,
\* HARD_FILTERS or SALARY_EXPECTATION, such a turn emits exactly one rejected
\* action, with the reason of the state it came from, and a turn that does
\* not move into REJECTED emits no rejected action.
C2_RejectedOnlyFromFilters ==
    Completed =>
        LET from == Val(last.currentState)
            rejected == RejectedActions(last.actions)
            moved == last.state = RECHAZADO /\ from # RECHAZADO
        IN  /\ LastDoc.estado = last.state
            /\ moved => /\ from \in RejectingStates
                        /\ Len(rejected) = 1
                        /\ rejected[1].reason = RejectReason(from)
            /\ ~moved => rejected = <<>>

\* a turn processed from SALARY_EXPECTATION has moved the conversation to REJECTED
C2_Witness ==
    /\ TurnFrom(SALARY_EXPECTATION)
    /\ LastDoc.estado = RECHAZADO
    /\ Len(RejectedActions(last.actions)) = 1

\* C3: applied to REJECTED or COMPLETED, the transition function returns the
\* same state and no action, for every message and every candidateData a
\* conversation holds, and so does every turn processed from these states.
C3_TerminalAbsorbing ==
    /\ \A p \in Phones, s \in {RECHAZADO, COMPLETADO}, m \in Messages :
          determineNextState(s, conversaciones[p].candidateData, m)
              = [newState |-> s, actions |-> <<>>]
    /\ \A s \in {RECHAZADO, COMPLETADO} :
          TurnFrom(s) => last.state = s /\ last.actions = <<>> /\ LastDoc.estado = s

\* a turn has been processed from REJECTED for a candidate whose name is recorded
C3_Witness ==
    /\ TurnFrom(RECHAZADO)
    /\ last.state = RECHAZADO
    /\ TruthyStr(LastDoc.candidateData.nombre)

\* C4: a turn processed from BASIC_DATA goes to REJECTED with reason underage
\* when the candidateData after extraction holds an age below 18; otherwise
\* it goes to HARD_FILTERS exactly when name, age, national ID and email are
\* all present, and else stays in BASIC_DATA with no action.
C4_BasicData ==
    TurnFrom(DATOS_BASICOS) =>
        LET d == LastDoc.candidateData
            underage == Present(d.edad) /\ Val(d.edad) < 18
            complete == /\ TruthyStr(d.nombre) /\ Present(d.edad)
                        /\ TruthyStr(d.dni) /\ TruthyStr(d.email)
        IN  /\ underage =>
                 /\ last.state = RECHAZADO
                 /\ last.actions = <<[type |-> "rejected", reason |-> "underage"]>>
            /\ ~underage =>
                 /\ last.state = HARD_FILTERS <=> complete
                 /\ last.state \in {HARD_FILTERS, DATOS_BASICOS}
                 /\ last.actions = <<>>

\* the turn that supplies the last of the four fields has moved to HARD_FILTERS
C4_Witness == TurnFrom(DATOS_BASICOS) /\ LastDoc.estado = HARD_FILTERS

\* an under-age candidate whose other fields are missing has been rejected
C4_WitnessUnderage ==
    /\ TurnFrom(DATOS_BASICOS)
    /\ LastDoc.estado = RECHAZADO
    /\ ~TruthyStr(LastDoc.candidateData.email)

C5_WitnessRejected ==
    /\ TurnFrom(HARD_FILTERS)
    /\ LastDoc.estado = RECHAZADO
    /\ ~Present(LastDoc.candidateData.cierresDisponible)

\* salary expectations that a message can state
SalarySamples == {1400, 1440, 1445, 1600}

\* what the specification expects of a salary s against a position maximum m
SalaryOutcome(s, m) ==
    IF s * 10 > m * 12
    THEN [newState |-> RECHAZADO,
          actions |-> <<[type |-> "rejected", reason |-> "salary_expectation_high",
                         category |-> "salary",
                         details |-> [expected |-> s, maxAllowed |-> (m * 12) \div 10]]>>]
    ELSE [newState |-> LOCATION_INPUT, actions |-> <<>>]

\* C6: a turn processed from SALARY_EXPECTATION with a recorded expectation s
\* goes to REJECTED (salary_expectation_high, expected s, maxAllowed 1.2 m)
\* when s > 1.2 m and to LOCATION_INPUT when s <= 1.2 m, m being 1200 when
\* the position maximum is unset; with no expectation recorded it stays.
\* With m = 1200: 1445 and 1600 are rejected, 1400 and 1440 proceed.
C6_SalaryThreshold ==
    /\ TurnFrom(SALARY_EXPECTATION) =>
          LET d == LastDoc.candidateData
              m == IF TruthyNum(d.positionMaxSalary) THEN Val(d.positionMaxSalary) ELSE 1200
          IN  /\ LastDoc.estado = last.state
              /\ IF Present(d.salaryExpectation)
                 THEN LET expected == SalaryOutcome(Val(d.salaryExpectation), m)
                      IN  last.state = expected.newState /\ last.actions = expected.actions
                 ELSE last.state = SALARY_EXPECTATION /\ last.actions = <<>>
    /\ \A p \in Phones, s \in SalarySamples :
          LET d == [conversaciones[p].candidateData EXCEPT !.salaryExpectation = Some(s)]
              out == determineNextState(SALARY_EXPECTATION, d, MsgSi)
          IN  /\ out = SalaryOutcome(s, 1200)
              /\ out.newState = LOCATION_INPUT <=> s \in {1400, 1440}
              /\ out.newState = RECHAZADO <=> s \in {1445, 1600}
              /\ out.newState = RECHAZADO => out.actions[1].details.maxAllowed = 1440

\* an expectation equal to the threshold, 1440, has proceeded to LOCATION_INPUT
C6_Witness ==
    /\ TurnFrom(SALARY_EXPECTATION)
    /\ LastDoc.candidateData.salaryExpectation = Some(1440)
    /\ LastDoc.estado = LOCATION_INPUT

\* an expectation of 1600 has been rejected
C6_WitnessRejected ==
    /\ TurnFrom(SALARY_EXPECTATION)
    /\ LastDoc.candidateData.salaryExpectation = Some(1600)
    /\ LastDoc.estado = RECHAZADO

\* the fields whose extraction the specification calls idempotent
IdempotentFields ==
    { "nombre", "fechaNacimiento", "edad", "dni", "email", "termsAccepted",
      "turnosRotativos", "cierresDisponible", "salaryExpectation", "distrito" }

\* C7: once one of the idempotent fields of candidateData is present, no
\* later message changes its value (one phone on one tenant, so that no
\* reset intervenes).
C7_IdempotentExtraction ==
    [][\A p \in Phones, f \in IdempotentFields :
          Present(conversaciones[p].candidateData[f]) =>
              conversaciones'[p].candidateData[f] = conversaciones[p].candidateData[f]]_vars

\* C8: a completed turn leaves the conversation with the tenant resolved for
\* its message; when that tenant differs from the stored one the turn is
\* processed from INITIAL, and afterwards the history holds this turn's two
\* messages only and candidateData holds only what this message yields from
\* empty data.
C8_TenantReset ==
    Completed =>
        /\ LastDoc.tenant_id = Some(last.tenant_id)
        /\ LastDoc.origin_id = Some(last.origin_id)
        /\ last.tenantChanged =>
              LET extracted == extractDataFromMessage(last.message, EmptyData, INICIO, today)
              IN  /\ last.currentState = Some(INICIO)
                  /\ last.state = TERMS
                  /\ LastDoc.estado = TERMS
                  /\ LastDoc.mensajes = << [role |-> "user", content |-> last.message],
                                           [role |-> "assistant", content |-> last.response] >>
                  /\ LastDoc.candidateData = Merge(EmptyData, extracted)

\* a turn on the second tenant's line has reset a conversation of the first
\* tenant; the message carries no data, so candidateData is empty again
C8_Witness ==
    /\ Completed
    /\ last.tenantChanged
    /\ last.tenant_id = "acme"
    /\ last.message = MsgNombre
    /\ LastDoc.candidateData = EmptyData

\* C9: whenever the persisted state is COMPLETED or REJECTED the conversation
\* record exists and its active flag is false.
C9_TerminalInactive ==
    \A p \in Phones :
        conversaciones[p].estado \in {COMPLETADO, RECHAZADO} =>
            conversaciones[p].exists /\ ~conversaciones[p].activo

\* C10: a turn in which a step throws answers with the apologetic reply and
\* no action, reports INITIAL, and leaves INITIAL as the persisted state.
C10_ErrorReset ==
    Caught =>
        /\ last.response = ErrorResponse
        /\ last.actions = <<>>
        /\ last.state = INICIO
        /\ LastDoc.estado = INICIO

\* the types of the actions a turn can emit
ActionTypes ==
    { "schedule_interview", "find_stores", "confirm_interview", "cancel_interview",
      "rejected", "complete_conversation" }

\* batches of two actions
ActionBatches == {<<[type |-> a], [type |-> b]>> : a, b \in ActionTypes}

\* C11: a turn whose action fails is still answered with status 200, the
\* turn's reply and the turn's state, and every action of the turn is
\* attempted; applied to a batch of two actions the loop executes the second
\* action on the record the first one left, whether or not the first failed.
C11_ActionsIsolated ==
    /\ Completed =>
          /\ last.status = 200
          /\ last.response = AiResponse
          /\ last.state = LastDoc.estado
          /\ last.attempted = Len(last.actions)
    /\ \A k \in DOMAIN postulantes, batch \in ActionBatches :
          LET done   == ExecuteActions(postulantes[k], batch, calendar + 1)
              first  == ExecuteAction(postulantes[k], batch[1], calendar + 1)
              second == ExecuteAction(first.candidate, batch[2], calendar + 1 + first.events)
          IN  /\ done.attempted = 2
              /\ done.candidate = second.candidate
              /\ done.failures = (IF Present(first.error) THEN 1 ELSE 0)
                                   + (IF Present(second.error) THEN 1 ELSE 0)

\* the schedule_interview action of a turn from INTERVIEW_SLOT has failed and
\* the turn was answered with its state, CONFIRMED
C11_Witness ==
    /\ TurnFrom(ENTREVISTA)
    /\ last.failures = 1
    /\ last.attempted = 1
    /\ last.status = 200
    /\ last.state = CONFIRMADO


\* the schedule_interview actions among a list of actions
ScheduleActions(actions) == SelectSeq(actions, LAMBDA a : a.type = "schedule_interview")

\* C12: scheduleInterview on an id without a candidate record fails with
\* 'Candidate not found', creates no calendar event and writes nothing; a
\* chat turn whose schedule_interview action meets this failure creates the
\* candidate record and calls scheduleInterview a second and last time; on
\* a record that exists the one call is not repeated whatever it throws.
C12_RetryOnce ==
    [][ /\ \A d \in InterviewDataSamples :
              scheduleInterview(NoCandidate, d, calendar + 1) =
                  [ candidate |-> NoCandidate, error |-> Some("Candidate not found"),
                    events |-> 0 ]
        /\ \A k \in DOMAIN postulantes :
              LET one == ExecuteAction(postulantes[k], [type |-> "schedule_interview"],
                                       calendar + 1)
              IN  /\ one.calls = IF postulantes[k].exists THEN 1 ELSE 2
                  /\ one.candidate.exists
        /\ last'.status = 200 =>
              LET k == <<last'.tenant_id, last'.phone>>
                  n == Len(ScheduleActions(last'.actions))
              IN  /\ last'.calls <= 2 * n
                  /\ n = 0 => postulantes'[k] = postulantes[k]
                  /\ (n = 1 /\ ~postulantes[k].exists) =>
                        /\ last'.calls = 2
                        /\ postulantes'[k].exists
                        /\ last'.failures = 1
                        /\ calendar' = calendar
                  /\ (n = 1 /\ postulantes[k].exists) =>
                        /\ last'.calls = 1
                        /\ postulantes'[k].exists ]_vars

\* a turn made two calls of scheduleInterview and left a candidate record
C12_Witness ==
    /\ TurnFrom(ENTREVISTA)
    /\ last.calls = 2
    /\ postulantes[<<last.tenant_id, last.phone>>] = createdCandidate
    /\ calendar = 0


\* the application record at the end of a candidate's applications list
LastApplication(candidate) == candidate.applications[Len(candidate.applications)]

\* the record holds the interview written by a scheduling
HasScheduledInterview(candidate) ==
    Present(candidate.entrevista) /\ Present(Val(candidate.entrevista).calendarEventId)

\* the last step was the call op of the scheduler on the candidate id k
SchedulerCall(op, k) == last'.op = op /\ last'.key = k

\* C13: a scheduleInterview that succeeds writes in one step the interview
\* (store and vacancy, date and time, calendar event, state programada,
\* confirmada false), the top-level state entrevista_programada and exactly
\* one more application record; one that fails writes nothing; a record
\* holds the interview of a scheduling exactly when it holds applications,
\* the last of which is that of this interview; and no call of schedule,
\* confirm or reschedule removes or changes an application record.
C13_ScheduleAtomic ==
    [][\A k \in DOMAIN postulantes :
          LET before == postulantes[k]
              after == postulantes'[k]
              n == Len(before.applications)
          IN  /\ Len(after.applications) >= n
              /\ SubSeq(after.applications, 1, n) = before.applications
              /\ HasScheduledInterview(after) <=> after.applications # <<>>
              /\ HasScheduledInterview(after) =>
                    Val(after.entrevista).calendarEventId = Some(LastApplication(after).id)
              /\ (SchedulerCall("scheduleInterview", k) /\ ~Present(last'.error)) =>
                    /\ Len(after.applications) = n + 1
                    /\ LastApplication(after).id = calendar'
                    /\ LastApplication(after).status = "interview_scheduled"
                    /\ Val(after.entrevista).estado = Some("programada")
                    /\ Val(after.entrevista).confirmada = Some(FALSE)
                    /\ Present(Val(after.entrevista).tiendaId)
                    /\ Present(Val(after.entrevista).vacanteId)
                    /\ Present(Val(after.entrevista).fechaHora)
                    /\ after.estado = Some("entrevista_programada")
                    /\ calendar' = calendar + 1
              /\ (SchedulerCall("scheduleInterview", k) /\ Present(last'.error)) =>
                    after = before
              /\ ~SchedulerCall("scheduleInterview", k) =>
                    after.applications = before.applications ]_vars

\* a candidate was scheduled a second time and holds both application records
C13_Witness ==
    /\ last.op = "scheduleInterview"
    /\ ~Present(last.error)
    /\ Len(postulantes[last.key].applications) = 2
    /\ Val(postulantes[last.key].entrevista).calendarEventId =
          Some(LastApplication(postulantes[last.key]).id)

\* the interview of the record is flagged as confirmed
Confirmada(candidate) ==
    Present(candidate.entrevista) /\ Val(candidate.entrevista).confirmada = Some(TRUE)

\* C14: in every candidate record the interview's confirmada flag is true
\* exactly when the top-level state is entrevista_confirmada; a successful
\* schedule and every reschedule of an existing candidate leave the flag
\* false with state entrevista_programada, a confirm of an existing
\* candidate leaves it true with state entrevista_confirmada, and a
\* reschedule of an absent candidate fails with the record left absent.
C14_ConfirmedFlag ==
    /\ [](\A k \in DOMAIN postulantes :
             Confirmada(postulantes[k]) <=>
                 postulantes[k].estado = Some("entrevista_confirmada"))
    /\ [][\A k \in DOMAIN postulantes :
             LET before == postulantes[k]
                 after == postulantes'[k]
             IN  /\ (SchedulerCall("rescheduleInterview", k) /\ ~before.exists) =>
                       /\ last'.error = Some("Candidate not found")
                       /\ after = before
                 /\ (SchedulerCall("rescheduleInterview", k) /\ before.exists) =>
                       /\ Val(after.entrevista).confirmada = Some(FALSE)
                       /\ Val(after.entrevista).reprogramada = Some(TRUE)
                       /\ after.estado = Some("entrevista_programada")
                 /\ (SchedulerCall("scheduleInterview", k) /\ ~Present(last'.error)) =>
                       /\ Val(after.entrevista).confirmada = Some(FALSE)
                       /\ after.estado = Some("entrevista_programada")
                 /\ (SchedulerCall("confirmInterview", k) /\ before.exists) =>
                       /\ Val(after.entrevista).confirmada = Some(TRUE)
                       /\ after.estado = Some("entrevista_confirmada") ]_vars

\* a confirmed interview was rescheduled and is no longer confirmed
C14_Witness ==
    /\ last.op = "rescheduleInterview"
    /\ last.before = Some("entrevista_confirmada")
    /\ ~Present(last.error)
    /\ ~Confirmada(postulantes[last.key])
    /\ postulantes[last.key].estado = Some("entrevista_programada")


\* the last request was a call of findMatchingStores
Matched == last.op = "findMatchingStores"

\* the store document of the requested tenant with the id of a match
StoreOf(match) ==
    CHOOSE t \in Range(last.tiendas[Val(last.candidateData.tenant_id)]) :
        t.id = match.tienda.id

\* the coordinates a store is located by: its lat and lng when both are
\* non-zero, else its coordinates object, else those of its district
LocatedAt(tienda) ==
    IF TruthyNum(tienda.lat) /\ TruthyNum(tienda.lng)
    THEN Some([lat |-> tienda.lat, lng |-> tienda.lng])
    ELSE IF Present(tienda.coordinates) THEN tienda.coordinates
    ELSE getDistrictCoordinates(tienda.distrito)

\* C15: findMatchingStores returns at most 3 matches; every match is a
\* store of the collection of the requested tenant, whose location is
\* resolved with a non-zero latitude and longitude and whose distance from
\* the candidate's resolved location, as calculateDistance gives it, is at
\* most 7 km (700 hundredths).
C15_MatchesBounded ==
    Matched =>
        /\ Len(last.matches) <= 3
        /\ \A i \in DOMAIN last.matches :
              LET Near(from, at) ==
                      /\ Present(at)
                      /\ TruthyNum(Val(at).lat)
                      /\ TruthyNum(Val(at).lng)
                      /\ Present(from)
                      /\ last.matches[i].tienda.distanceKm <= 700
                      /\ last.matches[i].tienda.distanceKm =
                            calculateDistance(Val(from).lat, Val(from).lng,
                                              Val(at).lat, Val(at).lng)
              IN  /\ Present(last.candidateData.tenant_id)
                  /\ \E t \in Range(last.tiendas[Val(last.candidateData.tenant_id)]) :
                        t.id = last.matches[i].tienda.id
                  /\ \A o \in Tenants \ last.candidateData.tenant_id :
                        \A t \in Range(last.tiendas[o]) : t.id # last.matches[i].tienda.id
                  /\ Near(CandidateLocation(last.candidateData),
                          LocatedAt(StoreOf(last.matches[i])))

\* three matches were returned out of a collection that also holds a store
\* beyond 7 km, one with a zero coordinate and one that cannot be located
C15_Witness ==
    /\ Matched
    /\ Len(last.matches) = 3
    /\ Len(last.tiendas["ngr"]) = 4
    /\ \E t \in Range(last.tiendas["ngr"]) : t.id \in {"T5", "T6", "T8"}

\* C16: for any two matches returned at positions i < j, the one at i is
\* the nearer when their distances differ by more than 0.5 km, and has at
\* least as many total slots when they differ by at most 0.5 km.
C16_PairwiseOrder ==
    Matched =>
        \A i, j \in DOMAIN last.matches :
            i < j =>
                LET di == last.matches[i].distancePriority
                    dj == last.matches[j].distancePriority
                IN  IF Abs(di - dj) > 50 THEN di < dj
                    ELSE last.matches[i].totalCupos >= last.matches[j].totalCupos

\* the stores at 3.00 km with 5 slots and at 3.34 km with 12 slots are
\* returned with the store of 12 slots first
C16_Example ==
    /\ Matched
    /\ Len(last.matches) = 2
    /\ last.matches[1].tienda.id = "T2" /\ last.matches[1].totalCupos = 12
    /\ last.matches[2].tienda.id = "T1" /\ last.matches[2].totalCupos = 5
    /\ last.tiendas["ngr"][1].id = "T1"

\* a vacancy can be matched with a declared availability
Matchable(vacante, disponibilidad) ==
    /\ vacante.estado = "activo"
    /\ vacante.cuposDisponibles > 0
    /\ \/ vacante.tipoTurno = Mixto
       \/ disponibilidad = Some(Mixto)
       \/ Some(vacante.tipoTurno) = disponibilidad

\* the compatibility test of the matcher and validateShiftAvailability give
\* the same answer on rotativos, cierres and mixto
ShiftTestsAgree ==
    /\ \A a \in validShifts, r \in validShifts :
          isShiftCompatible([tipoTurno |-> r], Some(a)) = validateShiftAvailability(Some(a), r)
    /\ ~validateShiftAvailability(Some(Cierres), Rotativos)
    /\ validateShiftAvailability(Some(Cierres), Mixto)

\* C17: the vacancies of a returned match are exactly the vacancies of the
\* store that are active, have slots left and are compatible with the
\* declared availability; there is at least one, and totalCupos is the sum
\* of their slots.  On rotativos, cierres and mixto the compatibility test
\* of the matcher agrees with validateShiftAvailability.
C17_VacanciesMatchable ==
    /\ Matched =>
          \A i \in DOMAIN last.matches :
              LET m == last.matches[i]
              IN  /\ m.vacantes # <<>>
                  /\ m.vacantes =
                        SelectSeq(StoreOf(m).vacantes,
                                  LAMBDA v : Matchable(v, last.candidateData.disponibilidad))
                  /\ m.totalCupos = SumCupos(m.vacantes)
                  /\ m.totalCupos > 0
    /\ ShiftTestsAgree

\* a store with an inactive, an empty and an incompatible vacancy is
\* returned with its one matchable vacancy
C17_Witness ==
    /\ Matched
    /\ last.candidateData.disponibilidad = Some(Cierres)
    /\ \E i \in DOMAIN last.matches :
          /\ last.matches[i].tienda.id = "T7"
          /\ Len(last.matches[i].vacantes) = 1
          /\ last.matches[i].totalCupos = 3

\* C18: the distance from a point to itself is 0, also when one of its
\* coordinates is 0, and the distance from a to b is that from b to a.
C18_DistanceZeroSymmetric ==
    last.op = "calculateDistance" =>
        /\ last.a = last.b => last.d = 0
        /\ last.d = calculateDistance(last.b.lat, last.b.lng, last.a.lat, last.a.lng)


\* the sources getTenantIdFromOrigin has to consult for an origin, given the cache
LookupsFor(cache, origin_id) ==
    IF Present(cache[origin_id]) THEN <<"cache">>
    ELSE IF Present(fallbackMappings[origin_id]) THEN <<"cache", "fallback">>
    ELSE <<"cache", "fallback", "registry">>

\* the last request reached the resolution of its origin
Resolving == last'.op = "chat" /\ last'.status \in {200, 500}

\* C19: a resolution consults the cache, then the fallback mappings, then
\* the registry, and stops at the first that knows the origin; a resolution
\* that succeeds leaves the origin cached with its tenant, so that the next
\* one is answered by the cache alone; one that fails leaves the cache as
\* it was; only clearCache removes entries, and it removes them all.
C19_ResolutionOrder ==
    [][ /\ Resolving =>
              /\ last'.lookups = LookupsFor(originToTenantCache, last'.origin_id)
              /\ last'.status = 200 =>
                    /\ last'.tenant_id \in Tenants
                    /\ \/ fallbackMappings[last'.origin_id] = Some(last'.tenant_id)
                       \/ TenantRegistry[last'.tenant_id] = last'.origin_id
                    /\ originToTenantCache' =
                          [originToTenantCache EXCEPT ![last'.origin_id] = Some(last'.tenant_id)]
                    /\ LookupsFor(originToTenantCache', last'.origin_id) = <<"cache">>
                    /\ Present(originToTenantCache[last'.origin_id]) =>
                          originToTenantCache[last'.origin_id] = Some(last'.tenant_id)
              /\ last'.status = 500 =>
                    /\ last'.lookups = <<"cache", "fallback", "registry">>
                    /\ originToTenantCache' = originToTenantCache
        /\ last'.op = "clearCache" =>
              \A o \in AllOrigins : ~Present(originToTenantCache'[o])
        /\ (~Resolving /\ last'.op # "clearCache") =>
              originToTenantCache' = originToTenantCache ]_vars

\* an origin that only the registry knows is answered by the cache
C19_Witness ==
    /\ last.op = "chat"
    /\ last.status = 200
    /\ last.origin_id = "acme-whatsapp"
    /\ last.tenant_id = "acme"
    /\ last.lookups = <<"cache">>

\* an origin that was cached is resolved by the registry after clearCache
C19_WitnessCleared ==
    /\ last.op = "chat"
    /\ last.status = 200
    /\ last.origin_id = "acme-whatsapp"
    /\ last.lookups = <<"cache", "fallback", "registry">>
    /\ conversaciones[last.phone].tenant_id = Some("acme")
    /\ Len(conversaciones[last.phone].mensajes) > 2

\* neither the fallback mappings nor the registry give the origin a tenant
NoTenantFor(origin_id) ==
    /\ ~Present(fallbackMappings[origin_id])
    /\ \A t \in Tenants : TenantRegistry[t] # origin_id

\* C20: a request whose body lacks phone, message or origin_id (undefined
\* or empty) is answered 400 and changes neither a conversation, nor a
\* candidate record, nor the calendar, nor the cache of resolved origins;
\* any other request is answered 200 or 500; and a request on an origin
\* that has no tenant changes no conversation and no candidate record.
C20_BadRequest ==
    [][ /\ last'.op = "chat" =>
              /\ last'.status \in {400, 200, 500}
              /\ last'.status = 400 =>
                    /\ \/ ~Given(last'.body.phone)
                       \/ ~TruthyStr(last'.body.message)
                       \/ ~Given(last'.body.origin_id)
                    /\ UNCHANGED <<conversaciones, postulantes, originToTenantCache, calendar>>
              /\ last'.status \in {200, 500} =>
                    /\ last'.phone \in Phones
                    /\ last'.origin_id \in AllOrigins
              /\ last'.status = 200 => last'.message # <<>>
              /\ last'.status = 500 => NoTenantFor(last'.origin_id)
              /\ (last'.status \in {200, 500} /\ NoTenantFor(last'.origin_id)) =>
                    UNCHANGED <<conversaciones, postulantes, calendar>> ]_vars

\* a request without origin_id was answered 400 while a conversation exists
C20_Witness ==
    /\ last.op = "chat"
    /\ last.status = 400
    /\ ~Present(last.body.origin_id)
    /\ Given(last.body.phone)
    /\ TruthyStr(last.body.message)
    /\ conversaciones[Val(last.body.phone)].exists

\* a request on an origin of no tenant was answered 500 while a conversation exists
C20_WitnessUnresolved ==
    /\ last.op = "chat"
    /\ last.status = 500
    /\ last.origin_id = UnknownOrigin
    /\ \E p \in Phones : conversaciones[p].exists

\* ------------------------------------------------------------------------
\* the conversation record holds every message and every extracted field
\* that a request has written to it
MessagesKept(p) == conversaciones[p].mensajes = written.log

DataKept(p) ==
    \A f \in CandidateFields :
        Present(written.data[f]) => Present(conversaciones[p].candidateData[f])

C21_WitnessSequential ==
    /\ ~written.overlapped
    /\ written.turns = 2
    /\ \E p \in Phones :
         /\ Present(conversaciones[p].candidateData.termsAccepted)
         /\ Present(conversaciones[p].candidateData.dni)
         /\ Len(conversaciones[p].mensajes) = MaxHist

\* ------------------------------------------------------------------------
\* the claims of the caller of the last request, None if its Authorization
\* header is no Bearer header with a token that verifies
Caller(req) ==
    IF Present(req.authorization) /\ Val(req.authorization).scheme = "Bearer"
    THEN verifyToken(Val(req.authorization).rest)
    ELSE None

\* the caller is a user of a registered, active tenant who asks for no other
\* tenant in the query string
CallerOfTenant(req, t) ==
    /\ Caller(req) = Some([tenant_id |-> Some(t)])
    /\ t \in Tenants
    /\ req.queryTenant \in {None, Some(t)}

\* the conversation document of a phone
ConversationOf(phone) ==
    IF phone \in DOMAIN conversaciones THEN conversaciones[phone] ELSE NoConversation

C22_WitnessOwn ==
    /\ last.op = "getConversation"
    /\ last.res.status = 200
    /\ Present(last.res.conversation)

\* ------------------------------------------------------------------------
\* C23: a candidate who answers every question acceptably reaches the state
\* CONFIRMADO after finitely many turns.
C23_ReachesConfirmed ==
    <>(\E p \in Phones : conversaciones[p].estado = CONFIRMADO)

\* the turn that enters CONFIRMADO emits schedule_interview
C23_ConfirmedSchedules ==
    [][\A p \in Phones :
          (conversaciones[p].estado # CONFIRMADO /\ conversaciones'[p].estado = CONFIRMADO)
             => ScheduleActions(last'.actions) # <<>>]_vars

\* the candidate who supplied a birth date has been confirmed
C23_ReachedWithBirthDate ==
    \E p \in Phones :
        /\ conversaciones[p].estado = CONFIRMADO
        /\ Present(conversaciones[p].candidateData.fechaNacimiento)

\* ------------------------------------------------------------------------
\* the last call answered is a call of op
Validated(op) == last.op = "validated" /\ last.call.op = op

\* C24: validateDNI succeeds exactly for the texts of 8 characters that are
\* all digits, and then returns these 8 digits; every other input is
\* rejected with a message.
C24_DniEightDigits ==
    Validated("dniRequest") =>
        LET dni == last.call.dni
            wellFormed == /\ Present(dni)
                          /\ Len(Val(dni)) = 8
                          /\ \A i \in DOMAIN Val(dni) : IsDigit(Val(dni)[i])
        IN  /\ ~last.res.thrown
            /\ last.res.valid = wellFormed
            /\ wellFormed => last.res.value = dni
            /\ ~wellFormed => Present(last.res.message)

\* C25: validateAge of a birth date returns the age of the candidate on the
\* day of the call, which is the difference of the years less one if the
\* birthday of this year is yet to come, and is valid exactly when that age
\* is between 18 and 60.
C25_AgeLimits ==
    (Validated("ageRequest") /\ Present(last.call.born)) =>
        LET age == AgeOn(Val(last.call.born), today)
        IN  /\ last.res.value = Some(age)
            /\ last.res.valid = (18 <= age /\ age <= 60)

\* the same, for the calls whose argument is a Date
C25_AgeLimitsOfDates ==
    (/\ Validated("ageRequest")
     /\ Present(last.call.born)
     /\ Val(last.call.birthDate).form = "Date") =>
        LET age == AgeOn(Val(last.call.born), today)
        IN  /\ last.res.value = Some(age)
            /\ last.res.valid = (18 <= age /\ age <= 60)

\* a Date one day short of the 18th birthday has been rejected
C25_WitnessDates ==
    /\ Validated("ageRequest")
    /\ Present(last.call.born)
    /\ Val(last.call.birthDate).form = "Date"
    /\ NextDay(today) = <<Val(last.call.born)[1] + 18, Val(last.call.born)[2],
                          Val(last.call.born)[3]>>
    /\ ~last.res.valid

\* C26: no validator throws; every call returns a result with a boolean
\* valid, and the result of validateCandidate is valid exactly when no error
\* was collected, lists the message of each field validator that failed and
\* carries data only when it is valid.
C26_ValidatorsNeverThrow ==
    last.op = "validated" =>
        /\ ~last.res.thrown
        /\ last.res.valid \in BOOLEAN
        /\ last.call.op = "candidateRequest" =>
             LET results == FieldResults(Val(last.call.candidateData), today, last.call.zone)
             IN  /\ last.res.valid = (last.res.errors = <<>>)
                 /\ Len(last.res.errors) = Cardinality({i \in DOMAIN results : ~results[i].valid})
                 /\ Present(last.res.data) = last.res.valid

\* the same for the calls in which no argument is absent
C26_CompositeCollectsErrors ==
    (Validated("candidateRequest") /\ Present(last.call.candidateData)) =>
        LET results == FieldResults(Val(last.call.candidateData), today, last.call.zone)
        IN  /\ ~last.res.thrown
            /\ last.res.valid = (last.res.errors = <<>>)
            /\ Len(last.res.errors) = Cardinality({i \in DOMAIN results : ~results[i].valid})
            /\ Present(last.res.data) = last.res.valid

\* ------------------------------------------------------------------------
\* C27: a message of the terms step that contains both an affirmative and a
\* negative keyword is recorded as termsAccepted = false, and the turn ends
\* in RECHAZADO with the action rejected(terms_declined).
C27_NegativeWins ==
    (/\ TurnFrom(TERMS)
     /\ Text(last.message).termsYes
     /\ Text(last.message).termsNo) =>
        /\ LastDoc.candidateData.termsAccepted = Some(FALSE)
        /\ last.state = RECHAZADO
        /\ \E i \in DOMAIN last.actions :
              last.actions[i].type = "rejected" /\ last.actions[i].reason = "terms_declined"

\* a message with a negative keyword only has been answered in the terms step
C27_ReachedNegative ==
    /\ TurnFrom(TERMS)
    /\ ~Text(last.message).termsYes
    /\ Text(last.message).termsNo
    /\ last.state = RECHAZADO

\* the fields that the extractor may produce in a state, as the
\* specification lists them
StateFields(currentState) ==
    CASE currentState \in {INICIO, TERMS} -> {"termsAccepted"}
      [] currentState = DATOS_BASICOS -> {"nombre", "fechaNacimiento", "edad", "dni", "email"}
      [] currentState = HARD_FILTERS -> {"turnosRotativos", "cierresDisponible"}
      [] currentState = SALARY_EXPECTATION -> {"salaryExpectation"}
      [] currentState = LOCATION_INPUT -> {"distrito"}
      [] currentState = TIENDAS -> {"storeSelection"}
      [] currentState = SELECCION_VACANTE -> {"vacancySelection"}
      [] OTHER -> {}

\* Object.keys(extracted)
KeysOf(extracted) == {f \in CandidateFields : Present(extracted[f])}

\* C28: whatever the message, the keys of the map that the extractor returns
\* for a turn are among the fields of the state the turn is processed from.
C28_ExtractsStateFieldsOnly ==
    [][\A p \in Phones :
          (last'.op = "chat" /\ last'.phone = p /\ ~last'.thrown) =>
              KeysOf(extractDataFromMessage(last'.message, conversaciones[p].candidateData,
                                            conversaciones[p].estado, today))
                 \subseteq StateFields(conversaciones[p].estado)]_vars

\* a turn has stored a field of its own state
C28_ReachedStateField ==
    /\ TurnFrom(HARD_FILTERS)
    /\ Present(LastDoc.candidateData.turnosRotativos)

\* ------------------------------------------------------------------------
\* the calls of generateResponse in progress or just finished
GenerateCalls == {inflight[s] : s \in {t \in Slots : Generating(t)}}

\* at most 5 retries and 6 calls of the model; none in mock mode
RetriesBounded ==
    \A call \in GenerateCalls :
        /\ call.retryCount <= MAX_RETRIES
        /\ call.calls <= MAX_RETRIES + 1
        /\ call.useMock => call.calls = 0

\* every failure but the last one was a rate-limit failure, and a failure
\* that is not one, or the sixth one, is propagated at once
OnlyRateLimitRetried ==
    \A call \in GenerateCalls :
        /\ \A i \in DOMAIN call.errors :
              (i < Len(call.errors) \/ call.pc = "generate_wait") => isRateLimit(call.errors[i])
        /\ call.outcome = "thrown" <=>
              /\ call.errors # <<>>
              /\ call.pc = "generate_done"
              /\ \/ ~isRateLimit(call.errors[Len(call.errors)])
                 \/ Len(call.errors) = MAX_RETRIES + 1

\* no wait is shorter than the base delay
WaitsAtLeastBase ==
    \A call \in GenerateCalls : \A k \in DOMAIN call.waits : call.waits[k] >= BASE_DELAY

\* C29: text generation is retried only after a rate-limit failure and at
\* most 5 times (6 calls of the model at most), another failure or the sixth
\* rate-limit failure is propagated at once, no wait before a retry is
\* shorter than the base delay, and in mock mode the model is never called.
C29_RetryDiscipline == RetriesBounded /\ OnlyRateLimitRetried /\ WaitsAtLeastBase

\* every call of generateResponse ends by returning or by throwing
GenerateTerminates ==
    \A s \in Slots : (inflight[s].pc = "generate") ~> (inflight[s].pc = "generate_done")

\* the sixth rate-limit failure in a row has been propagated
C29_ReachedSixthFailure ==
    \E call \in GenerateCalls :
        /\ call.outcome = "thrown"
        /\ call.calls = MAX_RETRIES + 1
        /\ isRateLimit(call.errors[MAX_RETRIES + 1])

\* ------------------------------------------------------------------------
\* the slots that a call of generateTimeSlots must return: on a day from one
\* to daysAhead days after the start date, not on a Sunday, at an interview
\* hour, and colliding with no busy event of the calendar
ExpectedSlots(call, now) ==
    { slot \in [date : {AddDays(call.startDate.date, k) : k \in 0..(call.daysAhead + 1)},
                hour : 0..23] :
        /\ Ordinal(slot.date) - Ordinal(call.startDate.date) \in 1..call.daysAhead
        /\ getDay(slot.date) # 0
        /\ slot.hour \in {9, 10, 11, 14, 15, 16, 17}
        /\ \A event \in Range(listEvents(now, call.zone)) :
              ~(/\ HoursOf(slot) < ParseISOString(event.end, call.zone)
                /\ HoursOf(slot) + 1 > ParseISOString(event.start, call.zone)) }

\* C30: generateTimeSlots(startDate, daysAhead) returns exactly the slots on a
\* day from startDate+1 to startDate+daysAhead, not on a Sunday, at one of the
\* hours 9,10,11,14,15,16,17, that collide with no busy event of the
\* calendar, in chronological order.
C30_TimeSlots ==
    (last.op = "validated" /\ last.call.op = "slotsRequest") =>
        /\ Range(last.res) = ExpectedSlots(last.call, today)
        /\ \A i, j \in DOMAIN last.res : i < j => HoursOf(last.res[i]) < HoursOf(last.res[j])
        /\ \A i \in DOMAIN last.res : last.res[i].date # last.call.startDate.date

\* a call that spans a Sunday and the busy hour has returned slots
C30_Witness ==
    /\ last.op = "validated"
    /\ last.call.op = "slotsRequest"
    /\ last.call.startDate.date = today
    /\ last.call.daysAhead = 7
    /\ Len(last.res) = 6 * 7 - 1

\* ------------------------------------------------------------------------
\* C34: a turn takes a conversation from TERMS to DATOS_BASICOS only if its
\* message, sent while the conversation was in TERMS, is affirmative.
C34_AcceptedInTerms ==
    (TurnFrom(TERMS) /\ last.state = DATOS_BASICOS) => Text(last.message).termsYes

\* an affirmative message sent in TERMS has advanced the conversation
C34_ReachedAccepted ==
    TurnFrom(TERMS) /\ last.state = DATOS_BASICOS /\ Text(last.message).termsYes

\* ------------------------------------------------------------------------
\* the coordinates of entry i of the table
CentroidOf(i) ==
    Some([lat |-> Some(DISTRICT_COORDINATES[i].lat), lng |-> Some(DISTRICT_COORDINATES[i].lng)])

\* the texts that name entry i: the name in any case, with or without accents
NamesEntry(districtName, i) ==
    Present(districtName) /\
    RemoveAccents(ToLowerCase(Val(districtName))) = RemoveAccents(DISTRICT_COORDINATES[i].name)

\* C40: getDistrictCoordinates of exactly the name of an entry of the table,
\* in any letter case and with or without accents, returns the coordinates of
\* that entry; of an empty or unknown name it returns null.
C40_OwnCentroid ==
    last.op = "getDistrictCoordinates" =>
        /\ \A i \in DOMAIN DISTRICT_COORDINATES :
              NamesEntry(last.districtName, i) => last.coords = CentroidOf(i)
        /\ (last.districtName \in {None, Some(<<>>), Some(<<"x", "y", "z">>)}) => last.coords = None

\* the name of an entry written in capitals has been resolved to its entry
C40_ReachedOwn ==
    /\ last.op = "getDistrictCoordinates"
    /\ last.districtName = Some(<<"L", "I", "N", "C", "E">>)
    /\ last.coords = CentroidOf(2)

\* ------------------------------------------------------------------------
\* C36: when a turn takes a conversation from DATOS_BASICOS to HARD_FILTERS,
\* the age recorded is between 18 and 60 and the national ID recorded is a
\* text of exactly 8 digits, as validateAge and validateDNI require.
C36_BasicDataValid ==
    (TurnFrom(DATOS_BASICOS) /\ last.state = HARD_FILTERS) =>
        /\ Present(LastDoc.candidateData.edad)
        /\ Val(LastDoc.candidateData.edad) \in 18..60
        /\ Present(LastDoc.candidateData.dni)
        /\ Len(Val(LastDoc.candidateData.dni)) = 8
        /\ validateDNI(LastDoc.candidateData.dni).valid

\* a candidate of 31 with a DNI of 8 digits has reached the hard filters
C36_ReachedValid ==
    /\ TurnFrom(DATOS_BASICOS)
    /\ last.state = HARD_FILTERS
    /\ LastDoc.candidateData.edad = Some(31)
    /\ LastDoc.candidateData.dni = Some(MsgDni)

\* C39: a reply of the negative set in HARD_FILTERS ("no", "no puedo",
\* "no tengo", alone or followed by a space and more text) sets the first
\* unset shift flag to false and the turn ends in RECHAZADO with the action
\* rejected(availability_filter); it is never recorded as true.
C39_NegativeRejects ==
    (TurnFrom(HARD_FILTERS) /\ Text(last.message).filterNo) =>
        /\ Some(FALSE) \in { LastDoc.candidateData.turnosRotativos,
                             LastDoc.candidateData.cierresDisponible }
        /\ last.state = RECHAZADO
        /\ \E i \in DOMAIN last.actions :
              /\ last.actions[i].type = "rejected"
              /\ last.actions[i].reason = "availability_filter"

\* "no gracias" has been recorded as false and the candidate rejected
C39_ReachedRejected ==
    /\ TurnFrom(HARD_FILTERS)
    /\ last.message = MsgNoGracias
    /\ last.state = RECHAZADO

\* ------------------------------------------------------------------------
\* the stores collections that the conversations are held against
TenantStores ==
    [ t \in Tenants |->
        IF t = "ngr"
        THEN << TiendaAt("T1", -12073, -77043, <<Vacante("V1", "activo", 5, Rotativos)>>),
                TiendaAt("T2", -12076, -77043, <<Vacante("V2", "activo", 12, Mixto)>>) >>
        ELSE OtherTenantStores ]

\* the stores that buildContext offers in state TIENDAS to the candidate of a
\* conversation
OfferedStores(doc) ==
    findMatchingStores([ tenant_id |-> doc.tenant_id, distrito |-> doc.candidateData.distrito,
                         disponibilidad |-> Some(Mixto), lat |-> None, lng |-> None ],
                       TenantStores)

\* C37: a turn takes a conversation from TIENDAS to SELECCION_VACANTE only
\* with a storeSelection between 1 and the number of stores offered for the
\* district, and a conversation whose district resolved to no store neither
\* reaches ENTREVISTA nor emits schedule_interview.
C37_SelectionOffered ==
    /\ (TurnFrom(TIENDAS) /\ last.state = SELECCION_VACANTE) =>
          /\ Present(LastDoc.candidateData.storeSelection)
          /\ Val(LastDoc.candidateData.storeSelection) \in 1..Len(OfferedStores(LastDoc))
    /\ \A p \in Phones :
          conversaciones[p].estado = ENTREVISTA => OfferedStores(conversaciones[p]) # <<>>
    /\ (Completed /\ \E i \in DOMAIN last.actions : last.actions[i].type = "schedule_interview")
          => OfferedStores(LastDoc) # <<>>

\* the first of the two stores offered in Miraflores has been chosen
C37_ReachedOffered ==
    /\ TurnFrom(TIENDAS)
    /\ last.state = SELECCION_VACANTE
    /\ LastDoc.candidateData.storeSelection = Some(1)
    /\ Len(OfferedStores(LastDoc)) = 2

\* ------------------------------------------------------------------------
\* the candidate record of a conversation holds an interview that is
\* scheduled or confirmed
HoldsInterview(p) ==
    \E t \in conversaciones[p].tenant_id :
        /\ <<t, p>> \in DOMAIN postulantes
        /\ postulantes[<<t, p>>].exists
        /\ \E entrevista \in postulantes[<<t, p>>].entrevista :
              entrevista.estado \in {Some("programada"), Some("confirmada")}

\* C35: whenever the persisted state of a conversation is CONFIRMADO, or
\* COMPLETADO, the candidate record of its phone and tenant exists and holds
\* an interview that is scheduled or confirmed: no conversation passes
\* ENTREVISTA when schedule_interview failed.
C35_ConfirmedHoldsInterview ==
    \A p \in Phones :
        conversaciones[p].estado \in {CONFIRMADO, COMPLETADO} => HoldsInterview(p)

\* a conversation has passed ENTREVISTA and the scheduling was attempted
C35_ReachedConfirmed ==
    /\ TurnFrom(ENTREVISTA)
    /\ last.state = CONFIRMADO
    /\ last.attempted = 1

\* ------------------------------------------------------------------------
\* the candidates that a reminder is due to, among those of the tenants
\* asked for: the state is scheduled or confirmed and the interview is on
\* the day after today
DueTomorrow(tenant_id) ==
    { k \in DOMAIN postulantes :
        /\ Present(tenant_id) => k[1] = Val(tenant_id)
        /\ postulantes[k].exists
        /\ postulantes[k].estado \in {Some("entrevista_programada"), Some("entrevista_confirmada")}
        /\ \E entrevista \in postulantes[k].entrevista : \E t \in entrevista.fechaHora :
              t \div 24 = Ordinal(today) + 1 }

C32_BestEffortReminders ==
    last.op = "reminders" =>
        /\ ~last.thrown
        /\ Len(last.results) = Len(last.candidates)
        /\ \A i \in DOMAIN last.results :
              LET candidate == last.candidates[i]
                  fails == \/ <<candidate.tenant_id, candidate.id>> \in last.failing
                           \/ ~last.before[candidate.id].exists
              IN  /\ last.results[i].telefono = candidate.id
                  /\ last.results[i].success = ~fails
                  /\ ~fails => conversaciones[candidate.id].estado = CONFIRMACION_PENDIENTE

\* the reminder of the first candidate failed and the second one was sent
C32_Witness ==
    /\ last.op = "reminders"
    /\ Len(last.results) = 2
    /\ ~last.results[1].success
    /\ last.results[2].success
    /\ conversaciones[last.candidates[2].id].estado = CONFIRMACION_PENDIENTE

\* C33: once the persisted state of a conversation is RECHAZADO or
\* COMPLETADO, no chat turn of the same tenant and no run of the reminder job
\* changes it.
C33_TerminalAbsorbing ==
    [][\A p \in Phones :
          (/\ conversaciones[p].exists
           /\ conversaciones[p].estado \in {RECHAZADO, COMPLETADO}
           /\ conversaciones'[p].tenant_id = conversaciones[p].tenant_id)
             => conversaciones'[p].estado = conversaciones[p].estado]_vars

\* a chat turn has left a rejected conversation rejected
C33_ReachedTerminalTurn ==
    TurnFrom(RECHAZADO) /\ last.state = RECHAZADO

\* C38: for one conversation and one pass through the flow the endpoint
\* executes schedule_interview at most once and the candidate record gets
\* at most one application, also when two messages of the same phone are
\* processed at the same time while the conversation asks for the slot.
C38_ScheduledOnce ==
    /\ written.scheduled <= 1
    /\ \A k \in DOMAIN postulantes :
          postulantes[k].exists => Len(postulantes[k].applications) <= 1

\* both answers to the question of the slot have been processed, one
\* received while the other was in process
C38_ReachedBothAnswered ==
    /\ written.overlapped
    /\ written.turns = 2
    /\ written.scheduled >= 1
    /\ \A s \in Slots : inflight[s] = Idle

====
